---- MODULE Spec2Model ----
(***************************************************************************)
(* passages-signup: the double opt-in signup flow.                         *)
(*                                                                         *)
(* The model covers the signup table, the two mediators of package         *)
(* command (SignupStarter, SignupFinisher), the mailing clients of package *)
(* mailclient (FakeClient, MailgunClient) and db.WithTransaction, which    *)
(* the HTTP handlers wrap around every mediator run.                       *)
(*                                                                         *)
(* Strings that the code inspects character by character (emails) are      *)
(* sequences of one-character strings.  Timestamps are hours since the     *)
(* start of the run.  A row is identified by its email instead of by the   *)
(* surrogate id, which the code only uses to address the row that it has   *)
(* just selected.                                                          *)
(***************************************************************************)
EXTENDS Integers, Sequences, FiniteSets, TLC

\* ---------------------------------------------------------------------------
\* Program constants
\* ---------------------------------------------------------------------------

maxNumSignupAttempts == 3

noResendHours == 24

\* ---------------------------------------------------------------------------
\* Bounds of the model
\* ---------------------------------------------------------------------------

\* The clock stops advancing after MaxDays cooldown periods.
MaxDays == 3

MaxTime == MaxDays * noResendHours

\* The cooldown periods that pass while the errors of the runs are kept.
MaxTracedDays == 1

\* The cooldown periods that pass while requests are handled together.
MaxQuietDays == 2

\* The mailing service accepts no more than MaxMessages messages for an
\* address.
MaxMessages == 4

\* The mailing service makes no more than MaxMembers additions to the list.
MaxMembers == 2

\* The clock advances by one cooldown period at a time.
TickSteps == {noResendHours}

\* No more than MaxFaults runs fail after the mailing service accepted their
\* call; runs that fail before that are not limited.
MaxFaults == 1

\* No more than NumTokens tokens of uuid.New() are in rows or messages.
NumTokens == 4

\* No more than NumGoroutines goroutines call OpenDB.
NumGoroutines == 2

\* A goroutine calls OpenDB no more than MaxOpenCalls times.
MaxOpenCalls == 2

TokenNames == <<"uuid-1", "uuid-2", "uuid-3", "uuid-4", "uuid-5", "uuid-6">>

\* The UUIDs that uuid.New() can hand out.
Tokens == {TokenNames[i] : i \in 1..NumTokens}

\* ---------------------------------------------------------------------------
\* Values
\* ---------------------------------------------------------------------------

\* SQL NULL / Go nil for a timestamp.
NULL == -1

Nil == "nil"

\* The address that signs up, and a string that is no address.
TestEmail == <<"f","@","e",".","c">>

NotAnEmail == <<"n","o","t","-","a","n">>

\* The address of a signup made before the server was started, and its token.
EarlierEmail == <<"b","@","e",".","c">>

EarlierToken == "uuid-0"

\* The email strings submitted to SignupStarter.
EmailInputs == {TestEmail, NotAnEmail, <<>>}

\* The token strings submitted to SignupFinisher when the tokens of known
\* are in rows or messages: these tokens, a string that was never a token and
\* the empty string.  The address of the earlier signup takes no part: nobody
\* submits it or presents its token.
TokenInputs(known) == (known \ {EarlierToken}) \cup {"not-a-token", ""}

testListAddress == "passages@example.com"

\* ---------------------------------------------------------------------------
\* Email syntax: emailRegexp
\* ---------------------------------------------------------------------------

Digits == {"0","1","2","3","4","5","6","7","8","9"}

Lower == {"a","b","c","d","e","f","g","h","i","j","k","l","m",
          "n","o","p","q","r","s","t","u","v","w","x","y","z"}

Upper == {"A","B","C","D","E","F","G","H","I","J","K","L","M",
          "N","O","P","Q","R","S","T","U","V","W","X","Y","Z"}

AlNum == Lower \cup Upper \cup Digits

\* The character class of the local part: letters, digits and the listed
\* punctuation (the grave accent is written "backtick").
LocalChars == AlNum \cup {".","!","#","$","%","&","'","*","+","/","=","?",
                           "^","_","backtick","{","|","}","~","-"}

\* A domain label: a letter or digit, then optionally up to 61 letters,
\* digits or hyphens followed by a letter or digit.
IsLabel(s) ==
    /\ Len(s) >= 1
    /\ Len(s) <= 63
    /\ s[1] \in AlNum
    /\ s[Len(s)] \in AlNum
    /\ \A i \in 1..Len(s) : s[i] \in AlNum \cup {"-"}

\* The domain: labels separated by single dots.
IsDomain(s) ==
    LET cuts == {0, Len(s) + 1} \cup {i \in 1..Len(s) : s[i] = "."}
    IN  \A a \in cuts : \A b \in cuts :
            (a < b /\ ~ \E m \in cuts : a < m /\ m < b)
                => IsLabel(SubSeq(s, a + 1, b - 1))

\* emailRegexp without the anchored local part: any prefix may precede the
\* at sign, the empty one included.
EmailRegexpMatchLoose(email) ==
    \E k \in 1..Len(email) :
        /\ email[k] = "@"
        /\ IsDomain(SubSeq(email, k + 1, Len(email)))

\* emailRegexp.MatchString
EmailRegexpMatch(email) ==
    \E k \in 1..Len(email) :
        /\ email[k] = "@"
        /\ k >= 2
        /\ \A i \in 1..(k - 1) : email[i] \in LocalChars
        /\ IsDomain(SubSeq(email, k + 1, Len(email)))

\* ---------------------------------------------------------------------------
\* State
\* ---------------------------------------------------------------------------

VARIABLES
    signup,         \* the committed rows of table signup
    now,            \* the clock, shared by NOW() and time.Now()
    mailAPI,        \* the mailing client NewServer picked: "fake" or "mailgun"
    MessagesSent,   \* per recipient, the messages the mailing service accepted
    MembersAdded,   \* per address, the additions the mailing service made
    lastAccepted,   \* per recipient, when the service last accepted a message
    numFaults,      \* how many runs failed after the service took their call
    last,           \* the mediator that ran latest and the result it returned
    runs,           \* per request in flight, how far its handler has got
    db,             \* var db *sql.DB: <<>> is nil, <<h>> points to handle h
    dbMutex,        \* var dbMutex sync.RWMutex: who holds it, and how
    opens,          \* per goroutine, how far its call of OpenDB has got
    handles,        \* how many handles sql.Open has handed out
    served          \* the latest request to the CSRF handler, and its answer

vars ==
    <<signup, now, mailAPI, MessagesSent, MembersAdded, lastAccepted,
      numFaults, last, runs, db, dbMutex, opens, handles, served>>

\* The state of the signup server, and the state around the handle of the
\* database.
serverVars ==
    <<signup, now, mailAPI, MessagesSent, MembersAdded, lastAccepted,
      numFaults, last, runs>>

dbVars == <<db, dbMutex, opens, handles>>

csrfVars == <<served>>

\* A row whose num_attempts starts at zero.
NewRowNoAttempt(email, token, tnow) ==
    [email        |-> email,
     token        |-> token,
     created_at   |-> tnow,
     completed_at |-> NULL,
     last_sent_at |-> tnow,
     num_attempts |-> 0]

\* A row whose last_sent_at starts a cooldown period back.
NewRowSentEarlier(email, token, tnow) ==
    [email        |-> email,
     token        |-> token,
     created_at   |-> tnow,
     completed_at |-> NULL,
     last_sent_at |-> tnow - noResendHours,
     num_attempts |-> 1]

\* A row of table signup, as INSERT INTO signup (email, token) creates it.
NewRow(email, token, tnow) ==
    [email        |-> email,
     token        |-> token,
     created_at   |-> tnow,
     completed_at |-> NULL,
     last_sent_at |-> tnow,
     num_attempts |-> 1]

\* SELECT ... FROM signup WHERE email = $1
RowsByEmail(tbl, email) == {r \in tbl : r.email = email}

\* A lookup that leaves the token out of its WHERE clause.
RowsByTokenAny(tbl, token) == tbl

\* SELECT ... FROM signup WHERE token = $1
RowsByToken(tbl, token) == {r \in tbl : r.token = token}

\* A table without its UNIQUE constraints.
UniqueViolationNever(tbl, row) == FALSE

\* The UNIQUE constraints on email and token.
UniqueViolation(tbl, row) ==
    \E r \in tbl : r.email = row.email \/ r.token = row.token

\* uuid.New(): a token that is in no row and in no message.  A token that
\* a rolled back run drew and showed to nobody is as good as new, so the
\* first token that is not in used stands for the fresh one.
NewUUID(used) ==
    TokenNames[CHOOSE i \in 1..Len(TokenNames) :
                   /\ TokenNames[i] \notin used
                   /\ \A j \in 1..(i - 1) : TokenNames[j] \in used]

\* ---------------------------------------------------------------------------
\* Mailing clients
\* ---------------------------------------------------------------------------

MailAPIs == {"fake", "mailgun"}

\* FakeClient.SendMessage: records the message and returns nil.
FakeSendMessage(params) == [err |-> Nil, accepted |-> TRUE]

\* MailgunClient.SendMessage: the error of mg.Send is wrapped with
\* xerrors.Errorf whether or not it is nil, and the wrapped error is returned.
MailgunSendMessage(params, fault) ==
    IF fault = "addRecipient"
    THEN [err |-> "error adding recipient", accepted |-> FALSE]
    ELSE [err |-> "error sending message", accepted |-> (fault # "send")]

SendMessage(api, params, fault) ==
    IF api = "fake" THEN FakeSendMessage(params)
    ELSE MailgunSendMessage(params, fault)

\* FakeClient.AddMember: records the member and returns nil.
FakeAddMember(list, email) == [err |-> Nil, accepted |-> TRUE]

\* MailgunClient.AddMember: interpretMailgunError keeps a nil error nil.
MailgunAddMember(list, email, fault) ==
    IF fault = "addMember"
    THEN [err |-> "Got unexpected status code from Mailgun", accepted |-> FALSE]
    ELSE [err |-> Nil, accepted |-> TRUE]

AddMember(api, list, email, fault) ==
    IF api = "fake" THEN FakeAddMember(list, email)
    ELSE MailgunAddMember(list, email, fault)

\* ---------------------------------------------------------------------------
\* SignupStarter
\* ---------------------------------------------------------------------------

\* A result that reports every message sent as a resend.
SignupStarterResultSent(rateLimited, resent, maxAttempts, newSignup) ==
    [ConfirmationRateLimited |-> rateLimited,
     ConfirmationResent      |-> resent \/ newSignup,
     MaxNumAttempts          |-> maxAttempts,
     NewSignup               |-> newSignup]

\* A *SignupStarterResult is a sequence: <<>> is nil, <<r>> points to r.
SignupStarterResult(rateLimited, resent, maxAttempts, newSignup) ==
    [ConfirmationRateLimited |-> rateLimited,
     ConfirmationResent      |-> resent,
     MaxNumAttempts          |-> maxAttempts,
     NewSignup               |-> newSignup]

\* What a run of a mediator leaves behind: its return values, the fault that
\* cut it short ("none" when no step failed), the table as its transaction
\* sees it, the calls it made on the mailing client and the ones of them
\* that the mailing service accepted.
RunOutcome(result, err, fault, tx, calls, accepted) ==
    [result |-> result, err |-> err, fault |-> fault, tx |-> tx,
     calls |-> calls, accepted |-> accepted]

\* A cap that lets one attempt too many through.
AttemptsExceeded(completedAt, numAttempts) ==
    completedAt = NULL /\ numAttempts > maxNumSignupAttempts

\* completedAt == nil && *numAttempts >= maxNumSignupAttempts
AttemptsExhausted(completedAt, numAttempts) ==
    completedAt = NULL /\ numAttempts >= maxNumSignupAttempts

\* A cooldown test that leaves the cooldown period out.
SentAfterNow(lastSentAt, tnow) == lastSentAt > tnow

\* A cooldown test that still holds when the whole period has passed.
SentWithinPeriod(lastSentAt, tnow) == lastSentAt >= tnow - noResendHours

\* lastSentAt.After(time.Now().Add(-noResendHours * time.Hour))
SentRecently(lastSentAt, tnow) == lastSentAt > tnow - noResendHours

\* An increment that does not look at completedAt.
BumpAlways(completedAt, numAttempts) == numAttempts + 1

\* if completedAt == nil { *numAttempts++ }
BumpAttempts(completedAt, numAttempts) ==
    IF completedAt = NULL THEN numAttempts + 1 ELSE numAttempts

\* An update that leaves num_attempts out of its SET clause.
UpdateSentOnly(tbl, row, tnow, numAttempts) ==
    (tbl \ {row}) \cup {[row EXCEPT !.last_sent_at = tnow]}

\* An update that also starts the row's life anew.
UpdateSentRecreated(tbl, row, tnow, numAttempts) ==
    (tbl \ {row}) \cup
        {[row EXCEPT !.created_at = tnow, !.last_sent_at = tnow,
                     !.num_attempts = numAttempts]}

\* UPDATE signup SET last_sent_at = NOW(), num_attempts = $1 WHERE id = $2
UpdateSent(tbl, row, tnow, numAttempts) ==
    (tbl \ {row}) \cup
        {[row EXCEPT !.last_sent_at = tnow, !.num_attempts = numAttempts]}

\* The SendMessageParams that sendConfirmationMessage builds; both bodies
\* carry the token in the confirmation link.
ConfirmationParams(c, token) ==
    [Recipient   |-> c.Email,
     ListAddress |-> c.ListAddress,
     token       |-> token]

\* A call on the mailing client: its arguments and the error it returned.
Call(params, ret) == [params |-> params, ret |-> ret]

\* A sender that goes on with the HTML as it is when the inlining fails.
sendConfirmationMessageUninlined(c, token, fault) ==
    IF fault = "renderPlain"
    THEN [err |-> "error rendering confirmation email (plain)",
          fault |-> fault, calls |-> <<>>, accepted |-> <<>>]
    ELSE IF fault = "renderHTML"
    THEN [err |-> "error rendering confirmation email (HTML)",
          fault |-> fault, calls |-> <<>>, accepted |-> <<>>]
    ELSE LET params == ConfirmationParams(c, token)
             sent   == SendMessage(c.MailAPI, params, fault)
         IN  [err      |-> sent.err,
              fault    |-> IF sent.accepted THEN "none" ELSE fault,
              calls    |-> <<Call(params, sent.err)>>,
              accepted |-> IF sent.accepted THEN <<params>> ELSE <<>>]

\* SignupStarter.sendConfirmationMessage
sendConfirmationMessage(c, token, fault) ==
    IF fault = "renderPlain"
    THEN [err |-> "error rendering confirmation email (plain)",
          fault |-> fault, calls |-> <<>>, accepted |-> <<>>]
    ELSE IF fault = "renderHTML"
    THEN [err |-> "error rendering confirmation email (HTML)",
          fault |-> fault, calls |-> <<>>, accepted |-> <<>>]
    ELSE IF fault = "inline"
    THEN [err |-> "error inlining CSS styling",
          fault |-> fault, calls |-> <<>>, accepted |-> <<>>]
    ELSE LET params == ConfirmationParams(c, token)
             sent   == SendMessage(c.MailAPI, params, fault)
         IN  [err      |-> sent.err,
              fault    |-> IF sent.accepted THEN "none" ELSE fault,
              calls    |-> <<Call(params, sent.err)>>,
              accepted |-> IF sent.accepted THEN <<params>> ELSE <<>>]

\* SignupStarter.Run, the path of an email that has no row.
StartNewSignup(c, tbl, tnow, uuid, fault) ==
    LET row == NewRow(c.Email, uuid, tnow)
    IN  IF fault = "exec" \/ UniqueViolation(tbl, row)
        THEN RunOutcome(<<>>, "error inserting singup row",
                        IF fault = "exec" THEN fault ELSE "none",
                        tbl, <<>>, <<>>)
        ELSE LET tx   == tbl \cup {row}
                 sent == sendConfirmationMessage(c, uuid, fault)
             IN  IF sent.err # Nil
                 THEN RunOutcome(<<>>, "error sending confirmation message",
                                 sent.fault, tx, sent.calls, sent.accepted)
                 ELSE RunOutcome(
                          <<SignupStarterResult(FALSE, FALSE, FALSE, TRUE)>>,
                          Nil, "none", tx, sent.calls, sent.accepted)

\* A starter that leaves a completed signup alone.
StartExistingUnlessCompleted(c, tbl, tnow, row, fault) ==
    IF row.completed_at # NULL \/ SentRecently(row.last_sent_at, tnow)
    THEN RunOutcome(<<SignupStarterResult(TRUE, FALSE, FALSE, FALSE)>>,
                    Nil, "none", tbl, <<>>, <<>>)
    ELSE IF AttemptsExhausted(row.completed_at, row.num_attempts)
    THEN RunOutcome(<<SignupStarterResult(FALSE, FALSE, TRUE, FALSE)>>,
                    Nil, "none", tbl, <<>>, <<>>)
    ELSE IF fault = "exec"
    THEN RunOutcome(<<>>, "error updating existing record", fault,
                    tbl, <<>>, <<>>)
    ELSE LET numAttempts == BumpAttempts(row.completed_at, row.num_attempts)
             tx   == UpdateSent(tbl, row, tnow, numAttempts)
             sent == sendConfirmationMessage(c, row.token, fault)
         IN  IF sent.err # Nil
             THEN RunOutcome(<<>>, "error sending confirmation email",
                             sent.fault, tx, sent.calls, sent.accepted)
             ELSE RunOutcome(
                      <<SignupStarterResult(FALSE, TRUE, FALSE, FALSE)>>,
                      Nil, "none", tx, sent.calls, sent.accepted)

\* A starter that looks at the cooldown before it looks at the cap.
StartExistingCooldownFirst(c, tbl, tnow, row, fault) ==
    IF SentRecently(row.last_sent_at, tnow)
    THEN RunOutcome(<<SignupStarterResult(TRUE, FALSE, FALSE, FALSE)>>,
                    Nil, "none", tbl, <<>>, <<>>)
    ELSE IF AttemptsExhausted(row.completed_at, row.num_attempts)
    THEN RunOutcome(<<SignupStarterResult(FALSE, FALSE, TRUE, FALSE)>>,
                    Nil, "none", tbl, <<>>, <<>>)
    ELSE IF fault = "exec"
    THEN RunOutcome(<<>>, "error updating existing record", fault,
                    tbl, <<>>, <<>>)
    ELSE LET numAttempts == BumpAttempts(row.completed_at, row.num_attempts)
             tx   == UpdateSent(tbl, row, tnow, numAttempts)
             sent == sendConfirmationMessage(c, row.token, fault)
         IN  IF sent.err # Nil
             THEN RunOutcome(<<>>, "error sending confirmation email",
                             sent.fault, tx, sent.calls, sent.accepted)
             ELSE RunOutcome(
                      <<SignupStarterResult(FALSE, TRUE, FALSE, FALSE)>>,
                      Nil, "none", tx, sent.calls, sent.accepted)

\* A starter whose cap lapses with the cooldown.
StartExistingCapLapses(c, tbl, tnow, row, fault) ==
    IF SentRecently(row.last_sent_at, tnow)
    THEN RunOutcome(
             <<IF AttemptsExhausted(row.completed_at, row.num_attempts)
               THEN SignupStarterResult(FALSE, FALSE, TRUE, FALSE)
               ELSE SignupStarterResult(TRUE, FALSE, FALSE, FALSE)>>,
             Nil, "none", tbl, <<>>, <<>>)
    ELSE IF fault = "exec"
    THEN RunOutcome(<<>>, "error updating existing record", fault,
                    tbl, <<>>, <<>>)
    ELSE LET numAttempts == BumpAttempts(row.completed_at, row.num_attempts)
             tx   == UpdateSent(tbl, row, tnow, numAttempts)
             sent == sendConfirmationMessage(c, row.token, fault)
         IN  IF sent.err # Nil
             THEN RunOutcome(<<>>, "error sending confirmation email",
                             sent.fault, tx, sent.calls, sent.accepted)
             ELSE RunOutcome(
                      <<SignupStarterResult(FALSE, TRUE, FALSE, FALSE)>>,
                      Nil, "none", tx, sent.calls, sent.accepted)

\* SignupStarter.Run, the path of an email that has a row.
StartExisting(c, tbl, tnow, row, fault) ==
    IF AttemptsExhausted(row.completed_at, row.num_attempts)
    THEN RunOutcome(<<SignupStarterResult(FALSE, FALSE, TRUE, FALSE)>>,
                    Nil, "none", tbl, <<>>, <<>>)
    ELSE IF SentRecently(row.last_sent_at, tnow)
    THEN RunOutcome(<<SignupStarterResult(TRUE, FALSE, FALSE, FALSE)>>,
                    Nil, "none", tbl, <<>>, <<>>)
    ELSE IF fault = "exec"
    THEN RunOutcome(<<>>, "error updating existing record", fault,
                    tbl, <<>>, <<>>)
    ELSE LET numAttempts == BumpAttempts(row.completed_at, row.num_attempts)
             tx   == UpdateSent(tbl, row, tnow, numAttempts)
             sent == sendConfirmationMessage(c, row.token, fault)
         IN  IF sent.err # Nil
             THEN RunOutcome(<<>>, "error sending confirmation email",
                             sent.fault, tx, sent.calls, sent.accepted)
             ELSE RunOutcome(
                      <<SignupStarterResult(FALSE, TRUE, FALSE, FALSE)>>,
                      Nil, "none", tx, sent.calls, sent.accepted)

\* SignupStarter.Run
SignupStarterRun(c, tbl, tnow, uuid, fault) ==
    IF c.Email = <<>>
    THEN RunOutcome(<<>>, "error validating command", "none", tbl, <<>>, <<>>)
    ELSE IF ~ EmailRegexpMatch(c.Email)
    THEN RunOutcome(<<>>, "ErrInvalidEmail", "none", tbl, <<>>, <<>>)
    ELSE IF fault = "query"
    THEN RunOutcome(<<>>, "error querying for existing record", fault,
                    tbl, <<>>, <<>>)
    ELSE IF RowsByEmail(tbl, c.Email) = {}
    THEN StartNewSignup(c, tbl, tnow, uuid, fault)
    ELSE StartExisting(c, tbl, tnow,
                       CHOOSE r \in RowsByEmail(tbl, c.Email) : TRUE, fault)

\* Whether SignupStarter.Run reaches uuid.New().
CallsNewUUID(c, tbl, fault) ==
    /\ c.Email # <<>>
    /\ EmailRegexpMatch(c.Email)
    /\ fault # "query"
    /\ RowsByEmail(tbl, c.Email) = {}

\* ---------------------------------------------------------------------------
\* SignupFinisher
\* ---------------------------------------------------------------------------

\* A *SignupFinisherResult is a sequence: <<>> is nil, <<r>> points to r.
SignupFinisherResult(email, finished, notFound) ==
    [Email |-> email, SignupFinished |-> finished, TokenNotFound |-> notFound]

\* An update that sets the column of the other mediator's UPDATE.
UpdateCompletedSent(tbl, row, tnow) ==
    (tbl \ {row}) \cup {[row EXCEPT !.last_sent_at = tnow]}

\* An update that also starts the count of attempts anew.
UpdateCompletedFresh(tbl, row, tnow) ==
    (tbl \ {row}) \cup {[row EXCEPT !.completed_at = tnow, !.num_attempts = 1]}

\* UPDATE signup SET completed_at = NOW() WHERE id = $1
UpdateCompleted(tbl, row, tnow) ==
    (tbl \ {row}) \cup {[row EXCEPT !.completed_at = tnow]}

\* The arguments of a call of MailAPI.AddMember.
AddMemberArgs(list, email) == [List |-> list, Email |-> email]

\* A finisher that takes a completed signup to be on the list already.
FinishFoundOnce(c, tbl, tnow, row, fault) ==
    IF row.completed_at # NULL
    THEN RunOutcome(<<SignupFinisherResult(row.email, TRUE, FALSE)>>,
                    Nil, "none", tbl, <<>>, <<>>)
    ELSE IF fault = "exec"
    THEN RunOutcome(<<>>, "error updating record", fault, tbl, <<>>, <<>>)
    ELSE LET tx    == UpdateCompleted(tbl, row, tnow)
             args  == AddMemberArgs(c.ListAddress, row.email)
             added == AddMember(c.MailAPI, c.ListAddress, row.email, fault)
         IN  IF added.err # Nil
             THEN RunOutcome(<<>>, "error adding email to list", fault,
                             tx, <<Call(args, added.err)>>, <<>>)
             ELSE RunOutcome(
                      <<SignupFinisherResult(row.email, TRUE, FALSE)>>,
                      Nil, "none", tx, <<Call(args, added.err)>>, <<args>>)

\* A finisher that reports the signup finished whatever AddMember returns.
FinishFoundWhatever(c, tbl, tnow, row, fault) ==
    IF fault = "exec"
    THEN RunOutcome(<<>>, "error updating record", fault, tbl, <<>>, <<>>)
    ELSE LET tx    == UpdateCompleted(tbl, row, tnow)
             args  == AddMemberArgs(c.ListAddress, row.email)
             added == AddMember(c.MailAPI, c.ListAddress, row.email, fault)
         IN  RunOutcome(<<SignupFinisherResult(row.email, TRUE, FALSE)>>,
                        Nil, IF added.err # Nil THEN fault ELSE "none", tx,
                        <<Call(args, added.err)>>,
                        IF added.err # Nil THEN <<>> ELSE <<args>>)

\* SignupFinisher.Run, from the row that the token selects.
FinishFound(c, tbl, tnow, row, fault) ==
    IF fault = "exec"
    THEN RunOutcome(<<>>, "error updating record", fault, tbl, <<>>, <<>>)
    ELSE LET tx    == UpdateCompleted(tbl, row, tnow)
             args  == AddMemberArgs(c.ListAddress, row.email)
             added == AddMember(c.MailAPI, c.ListAddress, row.email, fault)
         IN  IF added.err # Nil
             THEN RunOutcome(<<>>, "error adding email to list", fault,
                             tx, <<Call(args, added.err)>>, <<>>)
             ELSE RunOutcome(
                      <<SignupFinisherResult(row.email, TRUE, FALSE)>>,
                      Nil, "none", tx, <<Call(args, added.err)>>, <<args>>)

\* A finisher that takes a lookup without a row for a failed lookup.
SignupFinisherRunConflated(c, tbl, tnow, fault) ==
    IF c.Token = ""
    THEN RunOutcome(<<>>, "error validating command", "none", tbl, <<>>, <<>>)
    ELSE IF fault = "query" \/ RowsByToken(tbl, c.Token) = {}
    THEN RunOutcome(<<>>, "error querying for token",
                    IF fault = "query" THEN fault ELSE "none",
                    tbl, <<>>, <<>>)
    ELSE FinishFound(c, tbl, tnow,
                     CHOOSE r \in RowsByToken(tbl, c.Token) : TRUE, fault)

\* SignupFinisher.Run
SignupFinisherRun(c, tbl, tnow, fault) ==
    IF c.Token = ""
    THEN RunOutcome(<<>>, "error validating command", "none", tbl, <<>>, <<>>)
    ELSE IF fault = "query"
    THEN RunOutcome(<<>>, "error querying for token", fault, tbl, <<>>, <<>>)
    ELSE IF RowsByToken(tbl, c.Token) = {}
    THEN RunOutcome(<<SignupFinisherResult(<<>>, FALSE, TRUE)>>,
                    Nil, "none", tbl, <<>>, <<>>)
    ELSE FinishFound(c, tbl, tnow,
                     CHOOSE r \in RowsByToken(tbl, c.Token) : TRUE, fault)

\* ---------------------------------------------------------------------------
\* db.WithTransaction
\* ---------------------------------------------------------------------------

\* A transaction handle is "open" from Begin until the first Commit or
\* Rollback; a Commit that fails leaves the transaction rolled back; a call
\* on a handle that is not open returns ErrTxClosed and changes nothing.
\* ends tells whether the call ended the transaction.
TxCommit(tx, fails) ==
    IF tx # "open"
    THEN [tx |-> tx, err |-> "ErrTxClosed", ends |-> <<>>]
    ELSE IF fails
    THEN [tx |-> "rolled back", err |-> "commit failed", ends |-> <<"abort">>]
    ELSE [tx |-> "committed", err |-> Nil, ends |-> <<"commit">>]

\* A Rollback that undoes a committed transaction.
TxRollbackAnyway(tx) ==
    [tx |-> "rolled back", err |-> Nil, ends |-> <<"rollback">>]

TxRollback(tx) ==
    IF tx # "open"
    THEN [tx |-> tx, err |-> "ErrTxClosed", ends |-> <<>>]
    ELSE [tx |-> "rolled back", err |-> Nil, ends |-> <<"rollback">>]

\* What the function given to WithTransaction does: it returns err, or it
\* panics.
Body(err, panics) == [err |-> err, panics |-> panics]

\* What WithTransaction leaves: whether it began a transaction, the error it
\* returns, whether the panic of its body goes on, the calls it made on the
\* handle, the calls among them that ended the transaction, and the handle.
TxOutcome(begun, err, panics, calls, ends, tx) ==
    [begun |-> begun, err |-> err, panics |-> panics, calls |-> calls,
     ends |-> ends, tx |-> tx]

\* db.WithTransaction over pgx, a call at a time: the deferred Rollback runs
\* whichever way the function is left.
WithTransactionPgx(fault, body) ==
    IF fault = "begin"
    THEN TxOutcome(FALSE, "error starting transaction", FALSE, <<>>, <<>>,
                   "none")
    ELSE IF body.panics \/ body.err # Nil
    THEN LET rb == TxRollback("open")
         IN  TxOutcome(TRUE, IF body.panics THEN Nil ELSE body.err,
                       body.panics, <<"Rollback">>, rb.ends, rb.tx)
    ELSE LET cm == TxCommit("open", fault = "commit")
             rb == TxRollback(cm.tx)
         IN  TxOutcome(TRUE,
                       IF cm.err # Nil THEN "error committing transaction"
                       ELSE Nil,
                       FALSE, <<"Commit", "Rollback">>, cm.ends \o rb.ends,
                       rb.tx)

\* WithTransaction over database/sql, a call at a time: the deferred function
\* rolls back after a panic or an error and commits otherwise.
WithTransactionSQL(fault, body) ==
    IF fault = "begin"
    THEN TxOutcome(FALSE, "Failed to start transaction", FALSE, <<>>, <<>>,
                   "none")
    ELSE IF body.panics \/ body.err # Nil
    THEN LET rb == TxRollback("open")
         IN  TxOutcome(TRUE, IF body.panics THEN Nil ELSE body.err,
                       body.panics, <<"Rollback">>, rb.ends, rb.tx)
    ELSE LET cm == TxCommit("open", fault = "commit")
         IN  TxOutcome(TRUE, cm.err, FALSE, <<"Commit">>, cm.ends, cm.tx)

\* The outcome of a run that never started.
NotRun(tbl) == RunOutcome(<<>>, Nil, "none", tbl, <<>>, <<>>)

\* A transaction that commits what its body wrote whatever the body returns.
WithTransactionCommitsAlways(tbl, fault, run) ==
    IF fault = "begin"
    THEN [err |-> "error starting transaction", table |-> tbl, end |-> "none"]
    ELSE IF run.err # Nil
    THEN [err |-> run.err, table |-> run.tx, end |-> "commit"]
    ELSE IF fault = "commit"
    THEN [err |-> "error committing transaction", table |-> tbl,
          end |-> "rollback"]
    ELSE [err |-> Nil, table |-> run.tx, end |-> "commit"]

\* db.WithTransaction around a body whose outcome is run: the error it
\* returns, the committed table it leaves and how the transaction ended.
WithTransaction(tbl, fault, run) ==
    IF fault = "begin"
    THEN [err |-> "error starting transaction", table |-> tbl, end |-> "none"]
    ELSE IF run.err # Nil
    THEN [err |-> run.err, table |-> tbl, end |-> "rollback"]
    ELSE IF fault = "commit"
    THEN [err |-> "error committing transaction", table |-> tbl,
          end |-> "rollback"]
    ELSE [err |-> Nil, table |-> run.tx, end |-> "commit"]

\* The record of a mediator run inside db.WithTransaction: op and arg name
\* the mediator and its input; ran tells whether the body was called at all;
\* result, err and calls are what the mediator returned and the calls it
\* made on the mailing client, accepted the ones of them that the mailing
\* service accepted; fault is the step that failed, if any; txErr is the
\* error of WithTransaction, txEnd how the transaction ended and table the
\* committed table that it leaves.
FaultOf(fault, run, txn) ==
    IF run.fault # "none" THEN run.fault
    ELSE IF txn.end = "none" THEN "begin"
    ELSE IF run.err = Nil /\ txn.err # Nil THEN "commit"
    ELSE "none"

RunRecord(op, arg, fault, run, txn) ==
    [op       |-> op,
     arg      |-> arg,
     ran      |-> fault # "begin",
     result   |-> run.result,
     err      |-> run.err,
     fault    |-> FaultOf(fault, run, txn),
     calls    |-> run.calls,
     accepted |-> run.accepted,
     txErr    |-> txn.err,
     txEnd    |-> txn.end,
     table    |-> txn.table]

\* What the state keeps of a run: the mediator and the result it returned.
Latest(rec) == [op |-> rec.op, result |-> rec.result]

NoRun == [op |-> "none", result |-> <<>>]

\* The HTTP statuses that the handlers answer with.
StatusOK == 200

StatusBadRequest == 400

StatusNotFound == 404

StatusUnprocessableEntity == 422

StatusForbidden == 403

StatusInternalServerError == 500

\* handleSubmit after db.WithTransaction returned: an error goes to
\* withErrorHandling, which answers with an internal server error whatever
\* the error is; every result is answered with the view "ok".
SubmitStatus(rec) ==
    IF rec.txErr # Nil THEN StatusInternalServerError ELSE StatusOK

\* A handleConfirm that takes a missing token for a finished signup.
ConfirmStatusFound(rec) ==
    IF rec.txErr # Nil THEN StatusInternalServerError ELSE StatusOK

\* handleConfirm after db.WithTransaction returned.
ConfirmStatus(rec) ==
    IF rec.txErr # Nil THEN StatusInternalServerError
    ELSE IF rec.result[1].TokenNotFound THEN StatusNotFound
    ELSE StatusOK

\* The status of the response to the request whose run rec records.
Status(rec) ==
    IF rec.op = "start" THEN SubmitStatus(rec) ELSE ConfirmStatus(rec)

\* What the state keeps of a run when the errors are of interest: also the
\* errors that the mediator and WithTransaction returned, how the
\* transaction ended, and the status of the response.
Traced(rec) ==
    [op     |-> rec.op,
     result |-> rec.result,
     err    |-> rec.err,
     txErr  |-> rec.txErr,
     txEnd  |-> rec.txEnd,
     status |-> Status(rec)]

Kept(rec, keep) == IF keep = "errors" THEN Traced(rec) ELSE Latest(rec)

\* ---------------------------------------------------------------------------
\* Actions
\* ---------------------------------------------------------------------------

\* The step of a run at which the environment makes it fail, if any.  A
\* fault that the run does not reach is no fault: the actions take a fault
\* only when the run stops at it.
StarterFaults(api) ==
    {"none", "begin", "query", "exec", "renderPlain", "renderHTML",
     "inline", "commit"}
        \cup (IF api = "mailgun" THEN {"addRecipient", "send"} ELSE {})

FinisherFaults(api) ==
    {"none", "begin", "query", "exec", "commit"}
        \cup (IF api = "mailgun" THEN {"addMember"} ELSE {})

\* The addresses that can receive mail or join the list.
Addresses == {TestEmail, EarlierEmail}

\* The number of entries that the mailing service keeps in box.
RECURSIVE SumLen(_, _)
SumLen(box, as) ==
    IF as = {} THEN 0
    ELSE LET a == CHOOSE x \in as : TRUE
         IN  Len(box[a]) + SumLen(box, as \ {a})

Accepted(box) == SumLen(box, Addresses)

\* An accepted message as the mailing service keeps it, with whether the
\* recipient's committed row was completed at the time of the send.
Delivered(params, tbl) ==
    [token     |-> params.token,
     completed |-> \E r \in tbl :
                      r.email = params.Recipient /\ r.completed_at # NULL]

\* An added member as the mailing service keeps it, with the token that the
\* run adding it was given.
Added(args, token) == [List |-> args.List, token |-> token]

\* The tokens that are in rows or in accepted messages.
KnownTokens ==
    {r.token : r \in signup} \cup
    UNION {{MessagesSent[a][i].token : i \in 1..Len(MessagesSent[a])} :
              a \in Addresses}

\* The messages of box after the mailing service accepted the calls of rec.
MessagesAfter(box, rec) ==
    [a \in Addresses |->
        LET got == SelectSeq(rec.accepted, LAMBDA p : p.Recipient = a)
        IN  box[a] \o [i \in 1..Len(got) |-> Delivered(got[i], signup)]]

\* The members of box after the mailing service accepted the calls of rec.
MembersAfter(box, rec) ==
    [a \in Addresses |->
        LET got == SelectSeq(rec.accepted, LAMBDA p : p.Email = a)
        IN  box[a] \o [i \in 1..Len(got) |-> Added(got[i], rec.arg)]]

\* A run that failed although the mailing service accepted its call: the
\* call stands and the transaction is rolled back.
LostRun(rec) == rec.fault # "none" /\ rec.accepted # <<>>

\* handleSubmit on the current state: SignupStarter.Run inside
\* db.WithTransaction.
Submitted(email, fault) ==
    LET c == [Email |-> email, ListAddress |-> testListAddress,
              MailAPI |-> mailAPI]
    IN  CHOOSE rec \in
            {LET run == IF fault = "begin" THEN NotRun(signup)
                        ELSE SignupStarterRun(c, signup, now,
                                              NewUUID(KnownTokens), fault)
             IN  RunRecord("start", email, fault, run,
                           WithTransaction(signup, fault, run))} : TRUE

\* handleConfirm on the current state: SignupFinisher.Run inside
\* db.WithTransaction.
Confirmed(token, fault) ==
    LET c == [Token |-> token, ListAddress |-> testListAddress,
              MailAPI |-> mailAPI]
    IN  CHOOSE rec \in
            {LET run == IF fault = "begin" THEN NotRun(signup)
                        ELSE SignupFinisherRun(c, signup, now, fault)
             IN  RunRecord("finish", token, fault, run,
                           WithTransaction(signup, fault, run))} : TRUE

\* strings.TrimSpace, with the space for every white space character.
RECURSIVE TrimLeft(_)
TrimLeft(s) ==
    IF s # <<>> /\ Head(s) = " " THEN TrimLeft(Tail(s)) ELSE s

RECURSIVE TrimRight(_)
TrimRight(s) ==
    IF s # <<>> /\ s[Len(s)] = " "
    THEN TrimRight(SubSeq(s, 1, Len(s) - 1)) ELSE s

TrimSpace(s) == TrimRight(TrimLeft(s))

\* The methods of the requests that reach handleSubmit.
Methods == {"GET", "HEAD", "POST", "PUT", "DELETE"}

\* Whether handleSubmit gets as far as db.WithTransaction: the request is a
\* POST, its form parses and the form value email is not empty.
SubmitRuns(method, email, fault) ==
    method = "POST" /\ fault # "parseForm" /\ email # <<>>

\* A handler that takes a request of any method for a POST.
handleSubmitAnyMethod(method, email, fault) ==
    IF fault = "parseForm" THEN StatusBadRequest
    ELSE IF email = <<>> THEN StatusUnprocessableEntity
    ELSE SubmitStatus(Submitted(TrimSpace(email), fault))

\* The status that handleSubmit answers with on the current state, for a
\* request with this method and this form value email.
handleSubmit(method, email, fault) ==
    IF method # "POST" THEN StatusNotFound
    ELSE IF fault = "parseForm" THEN StatusBadRequest
    ELSE IF email = <<>> THEN StatusUnprocessableEntity
    ELSE SubmitStatus(Submitted(TrimSpace(email), fault))

\* The status that handleConfirm answers with on the current state, for
\* GET /confirm/{token}.
handleConfirm(token, fault) == ConfirmStatus(Confirmed(token, fault))

\* handleSubmit, with keep how much the state keeps of the run.
SubmitKeeping(email, fault, keep) ==
    \E rec \in {Submitted(email, fault)} :
        /\ rec.fault = fault
        /\ CallsNewUUID([Email |-> email], signup, fault) /\ fault # "begin"
               => Cardinality(KnownTokens \cap Tokens) < NumTokens
        /\ signup' = rec.table
        /\ MessagesSent' = MessagesAfter(MessagesSent, rec)
        /\ lastAccepted' =
               [a \in Addresses |->
                   IF \E i \in 1..Len(rec.accepted) :
                          rec.accepted[i].Recipient = a
                   THEN now ELSE lastAccepted[a]]
        /\ \A a \in Addresses : Len(MessagesSent'[a]) <= MaxMessages
        /\ last' = Kept(rec, keep)
        /\ numFaults' = IF LostRun(rec) THEN numFaults + 1 ELSE numFaults
        /\ numFaults' <= MaxFaults
        /\ UNCHANGED <<dbVars, csrfVars>>
        /\ UNCHANGED <<now, mailAPI, MembersAdded, runs>>

\* handleSubmit
Submit(email, fault) == SubmitKeeping(email, fault, "result")

\* handleConfirm, with keep how much the state keeps of the run.
ConfirmKeeping(token, fault, keep) ==
    \E rec \in {Confirmed(token, fault)} :
        /\ rec.fault = fault
        /\ signup' = rec.table
        /\ MembersAdded' = MembersAfter(MembersAdded, rec)
        /\ Accepted(MembersAdded') <= MaxMembers
        /\ last' = Kept(rec, keep)
        /\ numFaults' = IF LostRun(rec) THEN numFaults + 1 ELSE numFaults
        /\ numFaults' <= MaxFaults
        /\ UNCHANGED <<dbVars, csrfVars>>
        /\ UNCHANGED <<now, mailAPI, MessagesSent, lastAccepted, runs>>

\* handleConfirm
Confirm(token, fault) == ConfirmKeeping(token, fault, "result")

\* Time passes; the record of the latest run is dropped.
Tick(d) ==
    /\ now + d <= MaxTime
    /\ now' = now + d
    /\ last' = NoRun
    /\ UNCHANGED <<dbVars, csrfVars>>
    /\ UNCHANGED <<signup, mailAPI, MessagesSent, MembersAdded, lastAccepted,
                   numFaults, runs>>

\* The requests that the server can have in flight at once.
Procs == {1, 2}

\* A handler that has no request.
Idle ==
    [pc |-> "idle", op |-> "none", arg |-> <<>>, found |-> <<>>,
     write |-> <<>>, result |-> <<>>, err |-> Nil, calls |-> <<>>,
     end |-> "none"]

\* The goroutines that call OpenDB, and one that has not called it.
Goroutines == 1..NumGoroutines

NotCalled ==
    [pc |-> "idle", localDB |-> <<>>, ret |-> <<>>, err |-> Nil, calls |-> 0]

\* The CSRF handler before its first request.
NotServed == [Method |-> "none"]

\* The server starts on the table that an earlier signup of another address
\* left: its row, and its confirmation message in the hands of the mailing
\* service.
EarlierRow == NewRow(EarlierEmail, EarlierToken, 0)

Init ==
    /\ now = 0
    /\ mailAPI \in MailAPIs
    /\ signup = {EarlierRow}
    /\ MessagesSent =
           [a \in Addresses |->
               IF a = EarlierEmail
               THEN <<Delivered(ConfirmationParams(
                          [Email |-> EarlierEmail,
                           ListAddress |-> testListAddress],
                          EarlierToken), {})>>
               ELSE <<>>]
    /\ lastAccepted =
           [a \in Addresses |-> IF a = EarlierEmail THEN 0 ELSE NULL]
    /\ MembersAdded = [a \in Addresses |-> <<>>]
    /\ numFaults = 0
    /\ last = NoRun
    /\ runs = [p \in Procs |-> Idle]
    /\ db = <<>>
    /\ dbMutex = [readers |-> {}, writer |-> <<>>]
    /\ opens = [g \in Goroutines |-> NotCalled]
    /\ handles = 0
    /\ served = NotServed

Next ==
    \/ \E email \in EmailInputs : \E fault \in StarterFaults(mailAPI) :
           Submit(email, fault)
    \/ \E token \in TokenInputs(KnownTokens) :
           \E fault \in FinisherFaults(mailAPI) : Confirm(token, fault)
    \/ \E d \in TickSteps : Tick(d)

Spec == Init /\ [][Next]_vars

\* The server in an environment where no step of any run fails.
NextReliable ==
    \/ \E email \in EmailInputs : Submit(email, "none")
    \/ \E token \in TokenInputs(KnownTokens) : Confirm(token, "none")
    \/ \E d \in TickSteps : Tick(d)

SpecReliable == Init /\ [][NextReliable]_vars

\* The server, with the errors of the latest run kept in the state.
SubmitTraced(email, fault) == SubmitKeeping(email, fault, "errors")

ConfirmTraced(token, fault) == ConfirmKeeping(token, fault, "errors")

\* With the Mailgun client no start commits a row, so the token that can be
\* confirmed there is the one that the earlier signup left.
TokensLeft == IF mailAPI = "mailgun" THEN {EarlierToken} ELSE {}

\* Time passes while the errors are kept.
TickTraced(d) ==
    /\ now + d <= MaxTracedDays * noResendHours
    /\ Tick(d)

NextTraced ==
    \/ \E email \in EmailInputs : \E fault \in StarterFaults(mailAPI) :
           SubmitTraced(email, fault)
    \/ \E token \in TokenInputs(KnownTokens) \cup TokensLeft :
           \E fault \in FinisherFaults(mailAPI) : ConfirmTraced(token, fault)
    \/ \E d \in TickSteps : TickTraced(d)

SpecTraced == Init /\ [][NextTraced]_vars

\* ---------------------------------------------------------------------------
\* Requests in flight together
\* ---------------------------------------------------------------------------

\* The handlers of two requests, each a statement at a time: the
\* transactions are READ COMMITTED, so a SELECT reads the committed table, an
\* INSERT or UPDATE waits for the open transaction that wrote the same key or
\* row, and a transaction's write reaches the table when it commits.

\* The write of a statement that its transaction has not committed yet: the
\* row version it replaces (<<>> for an INSERT) and the row it leaves.
Pending(old, new) == <<[old |-> old, new |-> new]>>

\* A database in which no statement sees or waits for an uncommitted write.
OthersWritesUnseen(p) == {}

\* The rows that the open transactions of the other requests wrote.
OthersWrites(p) ==
    {runs[q].write[1].new :
        q \in {q \in Procs \ {p} :
                  runs[q].end = "open" /\ runs[q].write # <<>>}}

\* The table with the writes of request p applied.
Written(p) ==
    IF runs[p].write = <<>> THEN signup
    ELSE (signup \ {r \in signup : <<r>> = runs[p].write[1].old})
             \cup {runs[p].write[1].new}

\* A handler without a request in flight: it never had one, or it wrote the
\* response of its latest one, whose record stays until the next arrives.
Free(p) == runs[p].pc \in {"idle", "done"}

\* A request arrives and db.WithTransaction calls starter.Begin.  The
\* handlers are alike, so the free one with the lowest number takes it.
Begin(p, op, arg) ==
    /\ Free(p)
    /\ \A q \in Procs : q < p => ~ Free(q)
    /\ runs' = [runs EXCEPT ![p] =
                   [Idle EXCEPT !.pc = "begun", !.op = op, !.arg = arg,
                                !.end = "open"]]
    /\ UNCHANGED <<dbVars, csrfVars>>
    /\ UNCHANGED <<signup, now, mailAPI, MessagesSent, MembersAdded,
                   lastAccepted, numFaults, last>>

\* SignupStarter.Run up to its UPDATE or INSERT.
StartLookup(p) ==
    LET email == runs[p].arg
        rows  == RowsByEmail(signup, email)
        row   == CHOOSE r \in rows : TRUE
    IN  IF email = <<>>
        THEN [runs[p] EXCEPT !.pc = "failed",
                             !.err = "error validating command"]
        ELSE IF ~ EmailRegexpMatch(email)
        THEN [runs[p] EXCEPT !.pc = "failed", !.err = "ErrInvalidEmail"]
        ELSE IF rows = {}
        THEN [runs[p] EXCEPT !.pc = "queried"]
        ELSE IF AttemptsExhausted(row.completed_at, row.num_attempts)
        THEN [runs[p] EXCEPT
                 !.pc = "returned", !.found = <<row>>,
                 !.result = <<SignupStarterResult(FALSE, FALSE, TRUE, FALSE)>>]
        ELSE IF SentRecently(row.last_sent_at, now)
        THEN [runs[p] EXCEPT
                 !.pc = "returned", !.found = <<row>>,
                 !.result = <<SignupStarterResult(TRUE, FALSE, FALSE, FALSE)>>]
        ELSE [runs[p] EXCEPT !.pc = "queried", !.found = <<row>>]

\* SignupFinisher.Run up to its UPDATE.
FinishLookup(p) ==
    LET token == runs[p].arg
        rows  == RowsByToken(signup, token)
    IN  IF token = ""
        THEN [runs[p] EXCEPT !.pc = "failed",
                             !.err = "error validating command"]
        ELSE IF rows = {}
        THEN [runs[p] EXCEPT
                 !.pc = "returned",
                 !.result = <<SignupFinisherResult(<<>>, FALSE, TRUE)>>]
        ELSE [runs[p] EXCEPT !.pc = "queried",
                             !.found = <<CHOOSE r \in rows : TRUE>>]

\* tx.QueryRow(...).Scan(...) and the returns that follow it.
Lookup(p) ==
    /\ runs[p].pc = "begun"
    /\ runs' = [runs EXCEPT ![p] = IF runs[p].op = "start"
                                   THEN StartLookup(p) ELSE FinishLookup(p)]
    /\ UNCHANGED <<dbVars, csrfVars>>
    /\ UNCHANGED <<signup, now, mailAPI, MessagesSent, MembersAdded,
                   lastAccepted, numFaults, last>>

\* INSERT INTO signup (email, token): it waits for an open transaction that
\* inserted the same email or token, and fails on a committed one.
Insert(p) ==
    LET used == KnownTokens \cup {r.token : r \in OthersWrites(p)}
        row  == NewRow(runs[p].arg, NewUUID(used), now)
    IN  /\ runs[p].op = "start"
        /\ runs[p].found = <<>>
        /\ Cardinality(used \cap Tokens) < NumTokens
        /\ ~ UniqueViolation(OthersWrites(p), row)
        /\ runs' = [runs EXCEPT ![p] =
                       IF UniqueViolation(signup, row)
                       THEN [@ EXCEPT !.pc = "failed",
                                      !.err = "error inserting singup row"]
                       ELSE [@ EXCEPT !.pc = "written",
                                      !.write = Pending(<<>>, row)]]

\* UPDATE signup ... WHERE id = $n: it waits for an open transaction that
\* wrote the row, and writes the row's committed version.
Update(p) ==
    /\ runs[p].found # <<>>
    /\ \A r \in OthersWrites(p) : r.email # runs[p].found[1].email
    /\ \E cur \in {r \in signup : r.email = runs[p].found[1].email} :
           \E tbl \in {IF runs[p].op = "start"
                       THEN UpdateSent({cur}, cur, now,
                                BumpAttempts(runs[p].found[1].completed_at,
                                             runs[p].found[1].num_attempts))
                       ELSE UpdateCompleted({cur}, cur, now)} :
               \E new \in tbl :
                   runs' = [runs EXCEPT ![p] =
                               [@ EXCEPT !.pc = "written",
                                         !.write = Pending(<<cur>>, new)]]

\* tx.Exec
Write(p) ==
    /\ runs[p].pc = "queried"
    /\ Insert(p) \/ Update(p)
    /\ UNCHANGED <<dbVars, csrfVars>>
    /\ UNCHANGED <<signup, now, mailAPI, MessagesSent, MembersAdded,
                   lastAccepted, numFaults, last>>

\* c.sendConfirmationMessage and the return that follows it.
MailConfirmation(p) ==
    LET c    == [Email |-> runs[p].arg, ListAddress |-> testListAddress,
                 MailAPI |-> mailAPI]
        new  == runs[p].found = <<>>
        sent == sendConfirmationMessage(c, runs[p].write[1].new.token, "none")
    IN  /\ runs[p].op = "start"
        /\ MessagesSent' =
               [MessagesSent EXCEPT ![c.Email] =
                   @ \o [i \in 1..Len(sent.accepted) |->
                            Delivered(sent.accepted[i], signup)]]
        /\ Len(MessagesSent'[c.Email]) <= MaxMessages
        /\ lastAccepted' =
               [lastAccepted EXCEPT ![c.Email] =
                   IF sent.accepted # <<>> THEN now ELSE @]
        /\ runs' = [runs EXCEPT ![p] =
               IF sent.err # Nil
               THEN [@ EXCEPT
                        !.pc = "failed", !.calls = sent.calls,
                        !.err = IF new
                                THEN "error sending confirmation message"
                                ELSE "error sending confirmation email"]
               ELSE [@ EXCEPT
                        !.pc = "returned", !.calls = sent.calls,
                        !.result = <<SignupStarterResult(FALSE, ~ new, FALSE,
                                                         new)>>]]
        /\ UNCHANGED MembersAdded

\* c.MailAPI.AddMember and the return that follows it.
MailMember(p) ==
    LET email == runs[p].found[1].email
        args  == AddMemberArgs(testListAddress, email)
        added == AddMember(mailAPI, testListAddress, email, "none")
    IN  /\ runs[p].op = "finish"
        /\ MembersAdded' =
               [MembersAdded EXCEPT ![email] =
                   IF added.accepted
                   THEN Append(@, Added(args, runs[p].arg)) ELSE @]
        /\ Accepted(MembersAdded') <= MaxMembers
        /\ runs' = [runs EXCEPT ![p] =
               IF added.err # Nil
               THEN [@ EXCEPT !.pc = "failed",
                              !.calls = <<Call(args, added.err)>>,
                              !.err = "error adding email to list"]
               ELSE [@ EXCEPT
                        !.pc = "returned",
                        !.calls = <<Call(args, added.err)>>,
                        !.result = <<SignupFinisherResult(email, TRUE,
                                                          FALSE)>>]]
        /\ UNCHANGED <<MessagesSent, lastAccepted>>

\* The call on the mailing client.
Mail(p) ==
    /\ runs[p].pc = "written"
    /\ MailConfirmation(p) \/ MailMember(p)
    /\ UNCHANGED <<dbVars, csrfVars>>
    /\ UNCHANGED <<signup, now, mailAPI, numFaults, last>>

\* db.WithTransaction after the body returned: tx.Commit, or the deferred
\* tx.Rollback.
End(p) ==
    /\ runs[p].pc \in {"returned", "failed"}
    /\ \E txn \in {WithTransaction(signup, "none",
                       RunOutcome(runs[p].result, runs[p].err, "none",
                                  Written(p), runs[p].calls, <<>>))} :
           /\ signup' = txn.table
           /\ runs' = [runs EXCEPT ![p] =
                          [@ EXCEPT !.pc = "done", !.end = txn.end]]
    /\ UNCHANGED <<dbVars, csrfVars>>
    /\ UNCHANGED <<now, mailAPI, MessagesSent, MembersAdded, lastAccepted,
                   numFaults, last>>

\* No request is in flight.  A request takes a moment and the clock moves by
\* cooldown periods, so the clock moves between requests.
Quiet == \A p \in Procs : Free(p)

TickQuiet(d) ==
    /\ Quiet
    /\ now + d <= MaxQuietDays * noResendHours
    /\ Tick(d)

\* The requests that can arrive: a submit of the address, a confirm of the
\* token of its row or of a token that no row has.
NextConcurrent ==
    \/ \E p \in Procs :
           \/ Begin(p, "start", TestEmail)
           \/ \E token \in TokenInputs({r.token : r \in signup})
                                 \ {""} :
                  Begin(p, "finish", token)
    \/ \E p \in Procs : Lookup(p)
    \/ \E p \in Procs : Write(p)
    \/ \E p \in Procs : Mail(p)
    \/ \E p \in Procs : End(p)
    \/ \E d \in TickSteps : TickQuiet(d)

SpecConcurrent == Init /\ [][NextConcurrent]_vars

\* ---------------------------------------------------------------------------
\* OpenDB, a statement at a time
\* ---------------------------------------------------------------------------

\* dbMutex.RLock() of a new call: it waits while a goroutine holds the write
\* lock.
RLock(g) ==
    /\ opens[g].pc \in {"idle", "returned"}
    /\ opens[g].calls < MaxOpenCalls
    /\ dbMutex.writer = <<>>
    /\ dbMutex' = [dbMutex EXCEPT !.readers = @ \cup {g}]
    /\ opens' = [opens EXCEPT ![g] =
                     [NotCalled EXCEPT !.pc = "rlocked",
                                       !.calls = opens[g].calls + 1]]
    /\ UNCHANGED <<db, handles>>

\* var localDB = db
ReadDB(g) ==
    /\ opens[g].pc = "rlocked"
    /\ opens' = [opens EXCEPT ![g].pc = "read", ![g].localDB = db]
    /\ UNCHANGED <<db, dbMutex, handles>>

\* dbMutex.RUnlock()
RUnlock(g) ==
    /\ opens[g].pc = "read"
    /\ dbMutex' = [dbMutex EXCEPT !.readers = @ \ {g}]
    /\ opens' = [opens EXCEPT ![g].pc = "runlocked"]
    /\ UNCHANGED <<db, handles>>

\* if localDB != nil { return db, nil }: db is read again, with no lock held.
CheckLocal(g) ==
    /\ opens[g].pc = "runlocked"
    /\ opens' = [opens EXCEPT ![g] =
                     IF opens[g].localDB # <<>>
                     THEN [@ EXCEPT !.pc = "returned", !.ret = db]
                     ELSE [@ EXCEPT !.pc = "unset"]]
    /\ UNCHANGED <<db, dbMutex, handles>>

\* dbMutex.Lock(): it waits while any goroutine holds the lock, for reading
\* or for writing.
Lock(g) ==
    /\ opens[g].pc = "unset"
    /\ dbMutex.readers = {}
    /\ dbMutex.writer = <<>>
    /\ dbMutex' = [dbMutex EXCEPT !.writer = <<g>>]
    /\ opens' = [opens EXCEPT ![g].pc = "locked"]
    /\ UNCHANGED <<db, handles>>

\* An opening that does not look at db again once it holds the write lock.
OpenLockedUnchecked(g) ==
    /\ opens[g].pc = "locked"
    /\ \E opened \in BOOLEAN :
           IF opened
           THEN /\ db' = <<handles + 1>>
                /\ handles' = handles + 1
                /\ opens' = [opens EXCEPT ![g].pc = "opened"]
                /\ UNCHANGED dbMutex
           ELSE /\ db' = <<>>
                /\ opens' = [opens EXCEPT ![g].pc = "returned",
                                          ![g].err = "sql.Open"]
                /\ dbMutex' = [dbMutex EXCEPT !.writer = <<>>]
                /\ UNCHANGED handles

\* With the write lock held: if db != nil { return db, nil }, and otherwise
\* db, err = sql.Open(...), which returns a handle or a nil handle and an
\* error.  The deferred dbMutex.Unlock() runs on each return.
OpenLocked(g) ==
    /\ opens[g].pc = "locked"
    /\ IF db # <<>>
       THEN /\ opens' = [opens EXCEPT ![g].pc = "returned", ![g].ret = db]
            /\ dbMutex' = [dbMutex EXCEPT !.writer = <<>>]
            /\ UNCHANGED <<db, handles>>
       ELSE \E opened \in BOOLEAN :
                IF opened
                THEN /\ db' = <<handles + 1>>
                     /\ handles' = handles + 1
                     /\ opens' = [opens EXCEPT ![g].pc = "opened"]
                     /\ UNCHANGED dbMutex
                ELSE /\ db' = <<>>
                     /\ opens' = [opens EXCEPT ![g].pc = "returned",
                                               ![g].err = "sql.Open"]
                     /\ dbMutex' = [dbMutex EXCEPT !.writer = <<>>]
                     /\ UNCHANGED handles

\* db.SetConnMaxLifetime, db.SetMaxOpenConns, return db, nil and the deferred
\* dbMutex.Unlock().
Configure(g) ==
    /\ opens[g].pc = "opened"
    /\ opens' = [opens EXCEPT ![g].pc = "returned", ![g].ret = db]
    /\ dbMutex' = [dbMutex EXCEPT !.writer = <<>>]
    /\ UNCHANGED <<db, handles>>

\* A statement of a call of OpenDB by goroutine g.
OpenDB(g) ==
    /\ \/ RLock(g)
       \/ ReadDB(g)
       \/ RUnlock(g)
       \/ CheckLocal(g)
       \/ Lock(g)
       \/ OpenLocked(g)
       \/ Configure(g)
    /\ UNCHANGED <<serverVars, csrfVars>>

NextOpenDB == \E g \in Goroutines : OpenDB(g)

SpecOpenDB == Init /\ [][NextOpenDB]_vars

\* ---------------------------------------------------------------------------
\* The CSRF handler
\* ---------------------------------------------------------------------------

\* A URL or an origin is a sequence of parts: a scheme, "://", a host and a
\* path, each of them there or not; <<>> is the empty string.
Schemes == {"http", "https"}

Hosts == {"example.com", "evil.com", "brandur.org"}

\* csrf.AllowedOrigin of the options that the handler is built with.
allowedOrigins ==
    {<<"https", "://", "example.com">>, <<"https", "://", "brandur.org">>}

\* Idempotent (safe) methods as defined by RFC7231 section 4.2.2.
safeMethods == {"GET", "HEAD", "OPTIONS", "TRACE"}

ErrDisallowedOrigin == "Origin invalid"

ErrEmptyOrigin == "Origin empty"

ErrInvalidReferer == "Referer URL not parseable"

\* url.Parse: a URL that starts with a scheme and "://" has that scheme and
\* the host that follows; a first path segment with a colon in it is an
\* error; any other URL is a relative reference, without scheme and host.
urlParse(rawurl) ==
    IF rawurl # <<>> /\ Head(rawurl) = "||https:"
    THEN [Scheme |-> "", Host |-> "",
          err |-> "first path segment in URL cannot contain colon"]
    ELSE IF Len(rawurl) >= 2 /\ rawurl[1] \in Schemes /\ rawurl[2] = "://"
    THEN [Scheme |-> rawurl[1],
          Host   |-> IF Len(rawurl) >= 3 /\ rawurl[3] \in Hosts
                     THEN rawurl[3] ELSE "",
          err    |-> Nil]
    ELSE [Scheme |-> "", Host |-> "", err |-> Nil]

\* fmt.Sprintf("%s://%s", u.Scheme, u.Host)
SchemeAndHost(u) ==
    (IF u.Scheme = "" THEN <<>> ELSE <<u.Scheme>>)
        \o <<"://">> \o (IF u.Host = "" THEN <<>> ELSE <<u.Host>>)

\* A reading of the headers that takes the whole Referer for the origin.
originOrRefererWhole(r) ==
    IF r.Origin # <<>> THEN [origin |-> r.Origin, err |-> Nil]
    ELSE [origin |-> r.Referer, err |-> Nil]

\* originOrReferer
originOrReferer(r) ==
    IF r.Origin # <<>> THEN [origin |-> r.Origin, err |-> Nil]
    ELSE IF r.Referer = <<>> THEN [origin |-> <<>>, err |-> Nil]
    ELSE LET u == urlParse(r.Referer)
         IN  IF u.err # Nil THEN [origin |-> <<>>, err |-> u.err]
             ELSE [origin |-> SchemeAndHost(u), err |-> Nil]

\* The answer to request r: its status, the failure reason that envError
\* stored, and whether the wrapped handler was called.
Answer(r, status, reason, called) ==
    [Method |-> r.Method, Origin |-> r.Origin, Referer |-> r.Referer,
     status |-> status, reason |-> reason, called |-> called]

\* unauthorizedHandler, the error handler when the options name none.
unauthorizedHandler(r, reason) ==
    Answer(r, StatusForbidden, reason, FALSE)

\* csrf.ServeHTTP, around a handler that answers 200.
ServeHTTP(r) ==
    IF r.Method \notin safeMethods
    THEN LET read == originOrReferer(r)
         IN  IF read.err # Nil
             THEN unauthorizedHandler(r, ErrInvalidReferer)
             ELSE IF read.origin = <<>>
             THEN unauthorizedHandler(r, ErrEmptyOrigin)
             ELSE IF read.origin \notin allowedOrigins
             THEN unauthorizedHandler(r, ErrDisallowedOrigin)
             ELSE Answer(r, StatusOK, Nil, TRUE)
    ELSE Answer(r, StatusOK, Nil, TRUE)

\* The requests that come to the handler.
RequestMethods == Methods \cup safeMethods \cup {"PATCH", "get"}

OriginHeaders ==
    {<<>>, <<"https", "://", "example.com">>, <<"https", "://", "evil.com">>,
     <<"http", "://", "example.com">>, <<"://">>}

RefererHeaders ==
    {<<>>,
     <<"https", "://", "example.com", "/path/on/example">>,
     <<"https", "://", "brandur.org">>,
     <<"https", "://", "evil.com", "/path">>,
     <<"/path/on/example">>,
     <<"||https:", "//", "example.com", "/path/on/example">>}

Requests ==
    [Method : RequestMethods, Origin : OriginHeaders, Referer : RefererHeaders]

\* A request is served.
Serve(r) ==
    /\ served' = ServeHTTP(r)
    /\ UNCHANGED <<serverVars, dbVars>>

NextCSRF == \E r \in Requests : Serve(r)

SpecCSRF == Init /\ [][NextCSRF]_vars

\* ---------------------------------------------------------------------------
\* Properties
\* ---------------------------------------------------------------------------

\* The emails that the properties run SignupStarter on, and the tokens that
\* they run SignupFinisher on.
AllEmails == EmailInputs \cup Addresses

AllTokens == TokenInputs(KnownTokens) \cup {r.token : r \in signup}

\* The run that rec records was called, the environment made none of its
\* steps fail, and every call it made on the mailing client returned nil.
NoFailure(rec) ==
    /\ rec.ran
    /\ rec.fault = "none"
    /\ \A i \in 1..Len(rec.calls) : rec.calls[i].ret = Nil

\* The runs of SignupStarter on email that get past the lookup.
StartsLookedUp(email) ==
    {Submitted(email, fault) :
         fault \in StarterFaults(mailAPI) \ {"begin", "query"}}

Uncompleted(r) == r.completed_at = NULL

Capped(r) == Uncompleted(r) /\ r.num_attempts >= maxNumSignupAttempts

InCooldown(r, tnow) == tnow - r.last_sent_at < noResendHours

Flags(rateLimited, resent, maxAttempts, newSignup) ==
    <<[ConfirmationRateLimited |-> rateLimited,
       ConfirmationResent      |-> resent,
       MaxNumAttempts          |-> maxAttempts,
       NewSignup               |-> newSignup]>>

Finished(email) ==
    <<[Email |-> email, SignupFinished |-> TRUE, TokenNotFound |-> FALSE]>>

\* The run sent exactly one confirmation message, to email with token, and
\* the mailing service accepted it.
SendsOne(rec, email, token) ==
    /\ Len(rec.calls) = 1
    /\ rec.calls[1].params.Recipient = email
    /\ rec.calls[1].params.token = token
    /\ rec.accepted = <<rec.calls[1].params>>

\* The run sent no message.
SendsNone(rec) == rec.calls = <<>> /\ rec.accepted = <<>>

\* The run called AddMember exactly once, with the list address and email,
\* and the mailing service accepted it.
AddsOne(rec, email) ==
    /\ Len(rec.calls) = 1
    /\ rec.calls[1].params = [List |-> testListAddress, Email |-> email]
    /\ rec.accepted = <<rec.calls[1].params>>

\* C1 (double opt-in): MailAPI.AddMember is called for an address only by a
\* SignupFinisher run whose Token is the token stored on that address's row;
\* a SignupStarter run never calls AddMember; so every member of the list
\* was added by a run that presented the token of its row.
C1_DoubleOptIn ==
    /\ \A email \in AllEmails : \A fault \in StarterFaults(mailAPI) :
           \A rec \in {Submitted(email, fault)} :
               \A i \in 1..Len(rec.calls) :
                   DOMAIN rec.calls[i].params =
                       {"Recipient", "ListAddress", "token"}
    /\ \A token \in AllTokens :
           \A fault \in FinisherFaults(mailAPI) :
               \A rec \in {Confirmed(token, fault)} :
                   \A i \in 1..Len(rec.calls) :
                       \E r \in signup :
                           /\ r.email = rec.calls[i].params.Email
                           /\ r.token = token
    /\ \A a \in Addresses : \A i \in 1..Len(MembersAdded[a]) :
           \E r \in signup : r.email = a /\ r.token = MembersAdded[a][i].token

\* A finisher run with the token of the row of TestEmail added it to the
\* list, while another signup is in the table.
C1_Witness ==
    /\ last.op = "finish"
    /\ last.result = Finished(TestEmail)
    /\ MembersAdded[TestEmail] # <<>>
    /\ EarlierRow \in signup

\* C2 (new signup): for a syntactically valid email that has no row, when
\* nothing fails, SignupStarter.Run reports NewSignup with a nil error,
\* inserts exactly one row (a fresh token, num_attempts = 1, completed_at
\* null, last_sent_at = now) and calls SendMessage exactly once, with that
\* email and that row's token.
C2_NewSignup ==
    \A email \in AllEmails :
        (EmailRegexpMatch(email) /\ \A r \in signup : r.email # email) =>
            \A rec \in {Submitted(email, "none")} :
                NoFailure(rec) =>
                    /\ rec.err = Nil
                    /\ rec.result = Flags(FALSE, FALSE, FALSE, TRUE)
                    /\ Len(rec.calls) = 1
                    /\ LET token == rec.calls[1].params.token
                       IN  /\ token \notin KnownTokens
                           /\ SendsOne(rec, email, token)
                           /\ rec.table = signup \cup
                                  {[email        |-> email,
                                    token        |-> token,
                                    created_at   |-> now,
                                    completed_at |-> NULL,
                                    last_sent_at |-> now,
                                    num_attempts |-> 1]}

\* A run reported NewSignup and its row is committed next to another one.
C2_Witness ==
    /\ last.op = "start"
    /\ last.result = Flags(FALSE, FALSE, FALSE, TRUE)
    /\ Cardinality(signup) = 2
    /\ Len(MessagesSent[TestEmail]) = 1
    /\ \E r \in signup :
           /\ r.email = TestEmail
           /\ r.num_attempts = 1
           /\ r.last_sent_at = now
           /\ r.token = MessagesSent[TestEmail][1].token

\* C3 (rate limit): for an email whose row is not attempt-capped and whose
\* last_sent_at is within the last 24 hours, SignupStarter.Run reports
\* ConfirmationRateLimited with a nil error, sends no message and leaves the
\* row unchanged.
C3_RateLimited ==
    \A r \in signup :
        (~ Capped(r) /\ InCooldown(r, now)) =>
            \A rec \in StartsLookedUp(r.email) :
                /\ rec.err = Nil
                /\ rec.result = Flags(TRUE, FALSE, FALSE, FALSE)
                /\ SendsNone(rec)
                /\ rec.table = signup

\* A run was rate limited.
C3_Witness ==
    /\ last.op = "start"
    /\ last.result = Flags(TRUE, FALSE, FALSE, FALSE)
    /\ \E r \in signup : r.email = TestEmail /\ InCooldown(r, now)

\* C4 (resend, uncompleted): for an email whose row is uncompleted, has
\* num_attempts < 3 and last_sent_at older than 24 hours, when nothing fails,
\* SignupStarter.Run reports ConfirmationResent, increments num_attempts by
\* one, sets last_sent_at to now and sends exactly one message that carries
\* the row's existing token; email, token and completed_at are unchanged.
C4_ResendUncompleted ==
    \A r \in signup :
        (/\ Uncompleted(r)
         /\ r.num_attempts < maxNumSignupAttempts
         /\ ~ InCooldown(r, now)) =>
            \A rec \in {Submitted(r.email, "none")} :
                NoFailure(rec) =>
                    /\ rec.err = Nil
                    /\ rec.result = Flags(FALSE, TRUE, FALSE, FALSE)
                    /\ SendsOne(rec, r.email, r.token)
                    /\ rec.table = (signup \ {r}) \cup
                           {[r EXCEPT !.num_attempts = r.num_attempts + 1,
                                      !.last_sent_at = now]}

\* A run resent the confirmation of an uncompleted signup.
C4_Witness ==
    /\ last.op = "start"
    /\ last.result = Flags(FALSE, TRUE, FALSE, FALSE)
    /\ Len(MessagesSent[TestEmail]) = 2
    /\ \E r \in signup :
           /\ r.email = TestEmail
           /\ Uncompleted(r)
           /\ r.num_attempts = 2
           /\ r.last_sent_at = now
           /\ r.created_at < now

\* C5 (attempt cap): for an email whose row is uncompleted and has
\* num_attempts >= 3, SignupStarter.Run reports MaxNumAttempts with a nil
\* error, sends no message and leaves the row unchanged, whatever the age of
\* last_sent_at.
C5_MaxNumAttempts ==
    \A r \in signup :
        Capped(r) =>
            \A rec \in StartsLookedUp(r.email) :
                /\ rec.err = Nil
                /\ rec.result = Flags(FALSE, FALSE, TRUE, FALSE)
                /\ SendsNone(rec)
                /\ rec.table = signup

\* A run hit the cap although the last message is older than the cooldown.
C5_Witness ==
    /\ last.op = "start"
    /\ last.result = Flags(FALSE, FALSE, TRUE, FALSE)
    /\ \E r \in signup :
           r.email = TestEmail /\ Capped(r) /\ ~ InCooldown(r, now)

SentUncompleted(a) ==
    Cardinality({i \in 1..Len(MessagesSent[a]) :
                     ~ MessagesSent[a][i].completed})

\* C7 (attempt cap accounting): over any sequence of runs made one after
\* another, no more than 3 confirmation messages are ever sent to an address
\* while its signup is uncompleted, and the row's num_attempts equals the
\* number of messages sent for it while it was uncompleted.
C7_AttemptAccounting ==
    \A a \in Addresses :
        /\ SentUncompleted(a) <= maxNumSignupAttempts
        /\ \A r \in signup : r.email = a => r.num_attempts = SentUncompleted(a)

\* C8 (cooldown spacing): over any sequence of SignupStarter runs made one
\* after another, no confirmation message is sent to an address while the
\* previous message to it is less than 24 hours old, completed or not.
C8_CooldownSpacing ==
    [][\A a \in Addresses :
           Len(MessagesSent'[a]) > Len(MessagesSent[a]) =>
               \/ lastAccepted[a] = NULL
               \/ now - lastAccepted[a] >= noResendHours]_vars

\* C9 (finish): for a token that a row holds, when nothing fails,
\* SignupFinisher.Run sets completed_at to the current time, calls AddMember
\* exactly once with the list address and the stored email, and returns
\* SignupFinished = true, TokenNotFound = false, Email = the stored email
\* and a nil error.
C9_Finish ==
    \A r \in signup :
        \A rec \in {Confirmed(r.token, "none")} :
            NoFailure(rec) =>
                /\ rec.err = Nil
                /\ rec.result = Finished(r.email)
                /\ AddsOne(rec, r.email)
                /\ now # NULL
                /\ \E q \in rec.table :
                       q.email = r.email /\ q.completed_at = now

\* A run finished a signup that was uncompleted, at a time after the signup
\* was made.
C9_Witness ==
    /\ last.op = "finish"
    /\ last.result = Finished(TestEmail)
    /\ Len(MembersAdded[TestEmail]) = 1
    /\ \E r \in signup :
           /\ r.email = TestEmail
           /\ r.completed_at = now
           /\ r.created_at < now

\* C10 (finish is idempotent): running SignupFinisher.Run again with the
\* token of a completed row returns the same result (SignupFinished = true,
\* the same Email, a nil error), calls AddMember once per run, and leaves
\* completed_at non-null (set again to the current time) and the table
\* otherwise as the first run left it.
C10_FinishIdempotent ==
    \A r \in signup :
        ~ Uncompleted(r) =>
            \A rec \in {Confirmed(r.token, "none")} :
                NoFailure(rec) =>
                    /\ rec.err = Nil
                    /\ rec.result = Finished(r.email)
                    /\ Len(rec.calls) = 1
                    /\ rec.calls[1].params.Email = r.email
                    /\ Len(rec.accepted) = 1
                    /\ rec.table = (signup \ {r}) \cup
                           {[r EXCEPT !.completed_at = now]}
                    /\ \A q \in rec.table :
                           q.email = r.email => ~ Uncompleted(q)

\* A second run finished a signup, later than its message was sent.
C10_Witness ==
    /\ last.op = "finish"
    /\ last.result = Finished(TestEmail)
    /\ Len(MembersAdded[TestEmail]) = 2
    /\ \E r \in signup :
           /\ r.email = TestEmail
           /\ r.completed_at = now
           /\ r.last_sent_at < now

\* The runs of SignupFinisher on token that get past the lookup.
FinishesLookedUp(token) ==
    {Confirmed(token, fault) :
         fault \in FinisherFaults(mailAPI) \ {"begin", "query"}}

NotFound ==
    <<[Email |-> <<>>, SignupFinished |-> FALSE, TokenNotFound |-> TRUE]>>

\* C11 (unknown token): for a token that the lookup finds no row for,
\* SignupFinisher.Run returns TokenNotFound = true, SignupFinished = false,
\* an empty Email and a nil error, makes no AddMember call and writes nothing
\* to the signup table.
C11_TokenNotFound ==
    \A token \in AllTokens :
        (token # "" /\ \A r \in signup : r.token # token) =>
            \A rec \in FinishesLookedUp(token) :
                /\ rec.err = Nil
                /\ rec.result = NotFound
                /\ rec.calls = <<>>
                /\ rec.accepted = <<>>
                /\ rec.table = signup

\* A run was given a token that no row holds, while the table holds the row
\* of a signup that was started.
C11_Witness ==
    /\ last.op = "finish"
    /\ last.result = NotFound
    /\ \E r \in signup : r.email = TestEmail
    /\ MembersAdded = [a \in Addresses |-> <<>>]

\* The runs of SignupStarter on email whose body is called.
StartsRan(email) ==
    {Submitted(email, fault) : fault \in StarterFaults(mailAPI) \ {"begin"}}

\* C12 (invalid email): for every email string that does not match
\* emailRegexp, the empty string included, SignupStarter.Run returns
\* ErrInvalidEmail with a nil result and performs no row lookup, insert or
\* update and no SendMessage call.
C12_InvalidEmail ==
    \A email \in AllEmails :
        ~ EmailRegexpMatch(email) =>
            \A rec \in StartsRan(email) :
                /\ rec.err = "ErrInvalidEmail"
                /\ rec.result = <<>>
                /\ rec.fault \in {"none", "commit"}
                /\ rec.calls = <<>>
                /\ rec.accepted = <<>>
                /\ rec.table = signup

\* Strings that emailRegexp rejects, each for a reason of its own: no local
\* part, no domain, an empty label, a label that starts with a hyphen, a
\* character outside the classes, and no at sign.
MalformedEmails ==
    {<<"@","e",".","c">>,
     <<"f","@">>,
     <<"f","@","e",".",".","c">>,
     <<"f","@","-","e",".","c">>,
     <<"f"," ","@","e",".","c">>,
     NotAnEmail}

\* C12 (as the code has it): for every non-empty email string that
\* emailRegexp rejects Run returns ErrInvalidEmail; for the empty string it
\* returns the error of the command's validation.  In both cases the result
\* is nil, no call reaches the mailing client, the table is looked up and
\* written by no statement, and the transaction leaves it as it was.
C12_InvalidEmailRejected ==
    \A email \in AllEmails \cup MalformedEmails :
        (email \in MalformedEmails \/ ~ EmailRegexpMatch(email)) =>
            \A rec \in StartsRan(email) :
                /\ rec.err = IF email = <<>>
                             THEN "error validating command"
                             ELSE "ErrInvalidEmail"
                /\ rec.result = <<>>
                /\ rec.fault = "none"
                /\ rec.calls = <<>>
                /\ rec.accepted = <<>>
                /\ rec.txEnd = "rollback"
                /\ rec.table = signup

\* C12 happened: the latest run was a start that returned ErrInvalidEmail
\* with a nil result and a rolled back transaction.
C12_Witness ==
    /\ last.op = "start"
    /\ last.err = "ErrInvalidEmail"
    /\ last.result = <<>>
    /\ last.txEnd = "rollback"

\* The steps of SignupStarter.Run after the validation of its input.
StarterSteps ==
    {"query", "exec", "renderPlain", "renderHTML", "inline", "addRecipient",
     "send"}

\* C13: a run of SignupStarter that fails at a step after the validation --
\* the lookup, the insert, the update, the rendering, the inlining or
\* SendMessage -- returns a nil result and a non-nil error, db.WithTransaction
\* returns that error and rolls back, and the table is then what it was
\* before the run.
C13_StarterFailureRollsBack ==
    \A email \in AllEmails :
        (email # <<>> /\ EmailRegexpMatch(email)) =>
            \A rec \in StartsRan(email) :
                (rec.err # Nil \/ rec.fault \in StarterSteps) =>
                    /\ rec.err # Nil
                    /\ rec.result = <<>>
                    /\ rec.txErr = rec.err
                    /\ rec.txEnd = "rollback"
                    /\ rec.table = signup

\* C13 happened: the latest run inserted a row for an address, failed at
\* SendMessage and was rolled back, and the address has no row.
C13_Witness ==
    /\ last.op = "start"
    /\ last.err = "error sending confirmation message"
    /\ last.result = <<>>
    /\ last.txEnd = "rollback"
    /\ \A r \in signup : r.email # TestEmail

\* C14: in every committed state of table signup, whichever way the runs of
\* SignupStarter and SignupFinisher follow or overlap each other, no two rows
\* share an email and no two rows share a token.
C14_UniqueEmailAndToken ==
    \A r1 \in signup : \A r2 \in signup :
        (r1.email = r2.email \/ r1.token = r2.token) => r1 = r2

\* C14 happened: of two overlapping starts of one address the first committed
\* its row and the insert of the second failed on it.
C14_Witness ==
    /\ \E r \in signup : r.email = TestEmail
    /\ \E p \in Procs : \E q \in Procs \ {p} :
           /\ runs[p].op = "start"
           /\ runs[p].write # <<>>
           /\ runs[p].write[1].old = <<>>
           /\ runs[p].end = "commit"
           /\ runs[q].op = "start"
           /\ runs[q].arg = runs[p].arg
           /\ runs[q].found = <<>>
           /\ runs[q].err = "error inserting singup row"

\* The starts in flight or just answered whose lookup saw no row.
SawNoRow(p) ==
    /\ runs[p].op = "start"
    /\ runs[p].pc \notin {"idle", "begun"}
    /\ runs[p].found = <<>>

NewSignupResult == <<SignupStarterResult(FALSE, FALSE, FALSE, TRUE)>>

\* C15: of two starts of one address whose lookups both saw no row, at most
\* one commits an inserted row and reports NewSignup; once one has, the
\* insert of the other fails on the unique constraint, so that it returns an
\* error and a nil result, makes no call on the mailing client, and has its
\* transaction rolled back.
C15_ConcurrentStarts ==
    \A p \in Procs : \A q \in Procs \ {p} :
        (SawNoRow(p) /\ SawNoRow(q) /\ runs[p].arg = runs[q].arg) =>
            /\ ~ (runs[p].end = "commit" /\ runs[q].end = "commit")
            /\ runs[p].end = "commit" =>
                   /\ runs[p].result = NewSignupResult
                   /\ runs[q].pc \in {"queried", "failed", "done"}
                   /\ runs[q].result = <<>>
                   /\ runs[q].calls = <<>>
                   /\ runs[q].write = <<>>
                   /\ runs[q].pc # "queried" =>
                          runs[q].err = "error inserting singup row"
                   /\ runs[q].pc = "done" => runs[q].end = "rollback"

\* C15 happened: both starts are answered, one with NewSignup and a
\* committed row, the other with the error of its insert and a rollback, and
\* the address was sent one message.
C15_Witness ==
    \E p \in Procs : \E q \in Procs \ {p} :
        /\ SawNoRow(p) /\ SawNoRow(q) /\ runs[p].arg = runs[q].arg
        /\ runs[p].end = "commit"
        /\ runs[p].result = NewSignupResult
        /\ runs[q].end = "rollback"
        /\ runs[q].err = "error inserting singup row"
        /\ Len(MessagesSent[runs[p].arg]) = 1
        /\ Cardinality(RowsByEmail(signup, runs[p].arg)) = 1

\* The number of the flags of result r that are set.
FlagsSet(r, flags) == Cardinality({f \in flags : r[f]})

StarterFlagNames ==
    {"NewSignup", "ConfirmationResent", "ConfirmationRateLimited",
     "MaxNumAttempts"}

FinisherFlagNames == {"SignupFinished", "TokenNotFound"}

\* A run returned either a nil error and a result with exactly one of the
\* flags set, or a non-nil error and a nil result.
OneFlagOrError(rec, flags) ==
    IF rec.err = Nil
    THEN rec.result # <<>> /\ FlagsSet(rec.result[1], flags) = 1
    ELSE rec.result = <<>>

\* C16: every run of SignupStarter that returns a nil error returns a result
\* with exactly one of NewSignup, ConfirmationResent, ConfirmationRateLimited
\* and MaxNumAttempts set; every run of SignupFinisher that returns a nil
\* error returns a result with exactly one of SignupFinished and
\* TokenNotFound set; a run of either that returns an error returns a nil
\* result.
C16_ExclusiveFlags ==
    /\ \A email \in AllEmails :
           \A rec \in StartsRan(email) :
               OneFlagOrError(rec, StarterFlagNames)
    /\ \A token \in AllTokens :
           \A rec \in {Confirmed(token, fault) :
                          fault \in FinisherFaults(mailAPI) \ {"begin"}} :
               OneFlagOrError(rec, FinisherFlagNames)

\* C16 happened: the latest run was a start that returned a nil error and a
\* result with ConfirmationResent as its only flag, after a finish of the
\* same address had returned.
C16_Witness ==
    /\ last.op = "start"
    /\ last.err = Nil
    /\ last.result # <<>>
    /\ last.result[1].ConfirmationResent
    /\ FlagsSet(last.result[1], StarterFlagNames) = 1
    /\ \E r \in signup : r.email = TestEmail /\ r.completed_at # NULL

\* handleSubmit on table tbl, when nothing is made to fail.
StartedOn(tbl, email) ==
    LET c   == [Email |-> email, ListAddress |-> testListAddress,
                MailAPI |-> mailAPI]
        run == SignupStarterRun(c, tbl, now,
                   NewUUID(KnownTokens \cup {r.token : r \in tbl}), "none")
    IN  RunRecord("start", email, "none", run,
                  WithTransaction(tbl, "none", run))

\* handleConfirm on table tbl, when nothing is made to fail.
FinishedOn(tbl, token) ==
    LET c   == [Token |-> token, ListAddress |-> testListAddress,
                MailAPI |-> mailAPI]
        run == SignupFinisherRun(c, tbl, now, "none")
    IN  RunRecord("finish", token, "none", run,
                  WithTransaction(tbl, "none", run))

\* C17 (the scenario, cooldown 24h and ceiling 3): from a table without a
\* row of the address, when no call on the mailing client fails, a start
\* reports NewSignup, leaves num_attempts = 1 and sends one message; a start
\* right after it reports ConfirmationRateLimited, writes nothing and sends
\* nothing; a finish with the token of the row reports SignupFinished; a
\* second finish with that token reports SignupFinished again with a nil
\* error; the two finishes call AddMember twice in all.
C17_Scenario ==
    \A email \in Addresses :
        (\A r \in signup : r.email # email) =>
            \A s1 \in {StartedOn(signup, email)} :
            NoFailure(s1) =>
            \A s2 \in {StartedOn(s1.table, email)} :
            \A row \in RowsByEmail(s1.table, email) :
            \A f1 \in {FinishedOn(s2.table, row.token)} :
            \A f2 \in {FinishedOn(f1.table, row.token)} :
            (NoFailure(f1) /\ NoFailure(f2)) =>
                /\ noResendHours = 24
                /\ maxNumSignupAttempts = 3
                /\ s1.err = Nil
                /\ s1.result = Flags(FALSE, FALSE, FALSE, TRUE)
                /\ row.num_attempts = 1
                /\ Len(s1.accepted) = 1
                /\ s2.err = Nil
                /\ s2.result = Flags(TRUE, FALSE, FALSE, FALSE)
                /\ s2.table = s1.table
                /\ SendsNone(s2)
                /\ f1.err = Nil
                /\ f1.result = Finished(email)
                /\ f2.err = Nil
                /\ f2.result = Finished(email)
                /\ Len(f1.calls) + Len(f2.calls) = 2
                /\ Len(f1.accepted) + Len(f2.accepted) = 2
                /\ RowsByEmail(f2.table, email) =
                       {[row EXCEPT !.completed_at = now]}

\* C17 happened: before any time passed the address was sent one message,
\* its row has one attempt and is completed, the list took it twice, and the
\* latest run reported SignupFinished.
C17_Witness ==
    /\ now = 0
    /\ last.op = "finish"
    /\ last.result = Finished(TestEmail)
    /\ Len(MessagesSent[TestEmail]) = 1
    /\ Len(MembersAdded[TestEmail]) = 2
    /\ \E r \in signup :
           /\ r.email = TestEmail
           /\ r.num_attempts = 1
           /\ r.created_at = 0
           /\ r.last_sent_at = 0
           /\ r.completed_at = 0

\* The faults of a transaction that are not faults of its body.
TxFaults == {"none", "begin", "commit"}

\* The errors that the runs of the mediators return.
BodyErrors ==
    {Nil, "error validating command", "ErrInvalidEmail",
     "error querying for existing record", "error inserting singup row",
     "error sending confirmation message", "error updating existing record",
     "error sending confirmation email", "error querying for token",
     "error updating record", "error adding email to list"}

\* What the functions given to WithTransaction do: they return what a run
\* of a mediator returns, or they panic.
Bodies == {Body(err, FALSE) : err \in BodyErrors} \cup {Body(Nil, TRUE)}

Called(t, call) == \E i \in 1..Len(t.calls) : t.calls[i] = call

\* What C18 says of one call of WithTransaction.
CommitsOrRollsBack(t, fault, body) ==
    LET ok == ~ body.panics /\ body.err = Nil
    IN  /\ t.begun = (fault # "begin")
        /\ Called(t, "Commit") = (t.begun /\ ok)
        /\ (t.tx = "committed") = (t.begun /\ ok /\ fault # "commit")
        /\ (t.begun /\ ~ ok) => t.tx = "rolled back" /\ t.ends = <<"rollback">>
        /\ (t.begun /\ body.panics) => t.panics
        /\ (t.begun /\ ~ body.panics /\ body.err # Nil) => t.err = body.err
        /\ (fault = "begin" \/ (ok /\ fault = "commit")) => t.err # Nil
        /\ (t.err = Nil /\ ~ t.panics) = (t.tx = "committed")
        /\ t.begun => t.tx \in {"committed", "rolled back"} /\ Len(t.ends) = 1
        /\ ~ t.begun => t.tx = "none" /\ t.calls = <<>>

\* How the handlers see the end of a transaction.
TxEnd(t) ==
    IF t.tx = "committed" THEN "commit"
    ELSE IF t.tx = "rolled back" THEN "rollback" ELSE "none"

\* The run that rec records went through WithTransaction as t tells.
RanAs(rec, t) ==
    /\ rec.txErr = t.err
    /\ rec.txEnd = TxEnd(t)
    /\ t.tx # "committed" => rec.table = signup

\* C18: db.WithTransaction calls Commit if and only if its body returns nil;
\* it rolls the transaction back when the body returns an error or panics;
\* it returns the error of its body, and an error when Begin or Commit
\* fails; every transaction it began ends committed or rolled back, by
\* exactly one call, and none stays open.  This holds of both versions of
\* the helper, and the handlers' runs go through it accordingly.
C18_WithTransaction ==
    /\ \A fault \in TxFaults : \A body \in Bodies :
           /\ CommitsOrRollsBack(WithTransactionPgx(fault, body), fault, body)
           /\ CommitsOrRollsBack(WithTransactionSQL(fault, body), fault, body)
    /\ \A email \in AllEmails : \A fault \in StarterFaults(mailAPI) :
           \A rec \in {Submitted(email, fault)} :
               /\ rec.err \in BodyErrors
               /\ RanAs(rec, WithTransactionPgx(fault, Body(rec.err, FALSE)))
    /\ \A token \in AllTokens : \A fault \in FinisherFaults(mailAPI) :
           \A rec \in {Confirmed(token, fault)} :
               /\ rec.err \in BodyErrors
               /\ RanAs(rec, WithTransactionPgx(fault, Body(rec.err, FALSE)))

\* C18 happened: the body of the latest run returned nil and a result, the
\* commit failed, WithTransaction returned the error of the commit, and the
\* row that the body inserted is not in the table.
C18_Witness ==
    /\ last.op = "start"
    /\ last.err = Nil
    /\ last.result = NewSignupResult
    /\ last.txErr = "error committing transaction"
    /\ last.txEnd = "rollback"
    /\ \A r \in signup : r.email # TestEmail

C20_FinishRetry ==
    \A r \in signup :
        \A f1 \in {Confirmed(r.token, "addMember")} :
            f1.fault = "addMember" =>
                /\ Len(f1.calls) = 1
                /\ f1.calls[1].ret # Nil
                /\ f1.err = "error adding email to list"
                /\ f1.result = <<>>
                /\ f1.txErr = f1.err
                /\ f1.txEnd = "rollback"
                /\ f1.table = signup
                /\ \A f2 \in {FinishedOn(f1.table, r.token)} :
                       NoFailure(f2) =>
                           /\ f2.err = Nil
                           /\ f2.result = Finished(r.email)
                           /\ AddsOne(f2, r.email)
                           /\ f2.txEnd = "commit"
                           /\ RowsByEmail(f2.table, r.email) =
                                  {[r EXCEPT !.completed_at = now]}

\* C20 happened: a finish of a completed signup failed at AddMember at a
\* later time and was rolled back, and the row has the completed_at of the
\* earlier finish.
C20_Witness ==
    /\ last.op = "finish"
    /\ last.err = "error adding email to list"
    /\ last.result = <<>>
    /\ last.txEnd = "rollback"
    /\ \E r \in signup :
           /\ r.completed_at # NULL
           /\ r.completed_at < now
           /\ Len(MembersAdded[r.email]) = 1

\* The form values email that a request can carry: the emails submitted,
\* the malformed ones, and values with white space around them.
FormEmails ==
    AllEmails \cup MalformedEmails \cup
        {<<" ">>, <<" ">> \o NotAnEmail, <<" ">> \o TestEmail \o <<" ">>}

ClientErrors == 400..499

\* C21: when the submitted email fails the syntactic check, handleSubmit
\* answers with a status of the 4xx class, and the run, if there was one,
\* returned the error of the invalid email, wrote nothing and sent nothing.
C21_InvalidEmail4xx ==
    \A email \in FormEmails :
        ~ EmailRegexpMatch(TrimSpace(email)) =>
            /\ handleSubmit("POST", email, "none") \in ClientErrors
            /\ SubmitRuns("POST", email, "none") =>
                   \A rec \in {Submitted(TrimSpace(email), "none")} :
                       /\ rec.err \in {"ErrInvalidEmail",
                                       "error validating command"}
                       /\ rec.calls = <<>>
                       /\ rec.table = signup

\* C22: when nothing fails, GET /confirm/{token} answers 200 and commits a
\* non-null completed_at when the token is that of a row, and answers 404 and
\* leaves the table as it was when the token is that of no row; in neither
\* case does it answer with an internal server error.
C22_ConfirmHandler ==
    \A token \in AllTokens \ {""} :
        \A rec \in {Confirmed(token, "none")} :
            NoFailure(rec) =>
                /\ handleConfirm(token, "none") # StatusInternalServerError
                /\ \A r \in RowsByToken(signup, token) :
                       /\ handleConfirm(token, "none") = StatusOK
                       /\ rec.txEnd = "commit"
                       /\ RowsByToken(rec.table, token) =
                              {[r EXCEPT !.completed_at = now]}
                /\ RowsByToken(signup, token) = {} =>
                       /\ handleConfirm(token, "none") = StatusNotFound
                       /\ rec.table = signup

\* C22 happened: the latest request was a confirm answered with 200, and the
\* row of the address is completed.
C22_Witness ==
    /\ last.op = "finish"
    /\ last.status = StatusOK
    /\ last.txEnd = "commit"
    /\ \E r \in signup : r.email = TestEmail /\ r.completed_at = now

\* Every run of a mediator on the current state, whatever its input and
\* whatever fails.
AllRuns ==
    UNION {StartsRan(email) : email \in AllEmails} \cup
    UNION {{Confirmed(token, fault) :
               fault \in FinisherFaults(mailAPI) \ {"begin"}} :
              token \in AllTokens}

\* Table new keeps every row of table old, with its email, token and
\* created_at, and with its completed_at if it had one.
KeepsRows(old, new) ==
    \A r \in old : \E q \in new :
        /\ q.email = r.email
        /\ q.token = r.token
        /\ q.created_at = r.created_at
        /\ r.completed_at # NULL => q.completed_at # NULL

\* Table new is table old after the insertion of one row.
Inserted(old, new) ==
    \E q \in new \ old :
        /\ new = old \cup {q}
        /\ \A r \in old : r.email # q.email /\ r.token # q.token

\* Table new is table old after a resend: last_sent_at and num_attempts of
\* one row changed.
Resent(old, new) ==
    \E r \in old : \E q \in new :
        /\ new = (old \ {r}) \cup {q}
        /\ q = [r EXCEPT !.last_sent_at = q.last_sent_at,
                         !.num_attempts = q.num_attempts]

\* Table new is table old after a completion: completed_at of one row was
\* set.
Completed(old, new) ==
    \E r \in old : \E q \in new :
        /\ new = (old \ {r}) \cup {q}
        /\ q.completed_at # NULL
        /\ q = [r EXCEPT !.completed_at = q.completed_at]

\* C23: no run of SignupStarter or SignupFinisher deletes a row or changes
\* the email, the token or the created_at of a row, and a completed_at that
\* is set stays set; a run leaves the table as it was, inserts one row,
\* changes last_sent_at and num_attempts of one row, or sets completed_at of
\* one row.
C23_RowLifecycle ==
    \A rec \in AllRuns :
        /\ KeepsRows(signup, rec.table)
        /\ \/ rec.table = signup
           \/ rec.op = "start" /\ Inserted(signup, rec.table)
           \/ rec.op = "start" /\ Resent(signup, rec.table)
           \/ rec.op = "finish" /\ Completed(signup, rec.table)

\* C23 happened: the row of the address was inserted, changed by a resend
\* and completed, and it has the token and the created_at of its insertion.
C23_Witness ==
    /\ last.op = "finish"
    /\ \E r \in signup :
           /\ r.email = TestEmail
           /\ r.created_at = 0
           /\ r.last_sent_at > 0
           /\ r.num_attempts = 2
           /\ r.completed_at # NULL
           /\ Len(MessagesSent[TestEmail]) = 2
           /\ \A i \in 1..2 : MessagesSent[TestEmail][i].token = r.token

\* The steps of sendConfirmationMessage before its call of SendMessage, with
\* the error that each returns when it fails.
RenderErrors ==
    [renderPlain |-> "error rendering confirmation email (plain)",
     renderHTML  |-> "error rendering confirmation email (HTML)",
     inline      |-> "error inlining CSS styling"]

\* C24: when rendering the plain body, rendering the HTML body or inlining
\* the CSS fails, sendConfirmationMessage returns the error of that step and
\* does not call SendMessage, and SignupStarter.Run returns an error and a
\* nil result; this happens in every run that would otherwise have sent.
C24_RenderFailure ==
    \A fault \in DOMAIN RenderErrors :
        /\ \A email \in AllEmails : \A token \in Tokens :
               \A sent \in {sendConfirmationMessage(
                                [Email |-> email,
                                 ListAddress |-> testListAddress,
                                 MailAPI |-> mailAPI], token, fault)} :
                   /\ sent.err = RenderErrors[fault]
                   /\ sent.calls = <<>>
                   /\ sent.accepted = <<>>
        /\ \A email \in AllEmails :
               \A rec \in {Submitted(email, fault)} :
                   /\ (rec.fault = fault) =
                          (Submitted(email, "none").calls # <<>>)
                   /\ rec.fault = fault =>
                          /\ rec.err \in {"error sending confirmation message",
                                          "error sending confirmation email"}
                          /\ rec.result = <<>>
                          /\ rec.calls = <<>>
                          /\ rec.accepted = <<>>
                          /\ rec.txErr = rec.err
                          /\ rec.table = signup

\* C24 happened: with the client that never fails, the latest start
\* returned the error of sendConfirmationMessage, and the address has no
\* message and no row.
C24_Witness ==
    /\ mailAPI = "fake"
    /\ last.op = "start"
    /\ last.err = "error sending confirmation message"
    /\ last.result = <<>>
    /\ MessagesSent[TestEmail] = <<>>
    /\ \A r \in signup : r.email # TestEmail

\* The calls of OpenDB that returned without an error.
Opened == {g \in Goroutines : opens[g].pc = "returned" /\ opens[g].err = Nil}

\* A goroutine is at the statement that reads db with no lock held.
ReadsUnlocked(g) == opens[g].pc = "runlocked" /\ opens[g].localDB # <<>>

\* C25: under any interleaving of calls of OpenDB, sql.Open hands out no
\* more than one handle, every call that returns without an error returns
\* that handle, which is the one db points to, and a step changes db only
\* while the goroutine that takes it holds the write lock; no goroutine
\* reads db with no lock held while db can still be written.
C25_OpenDB ==
    /\ [](/\ handles <= 1
          /\ db = IF handles = 0 THEN <<>> ELSE <<1>>
          /\ \A g \in Opened : opens[g].ret = <<1>> /\ opens[g].ret = db
          /\ \A g \in Goroutines : ReadsUnlocked(g) => db # <<>>)
    /\ [][db' # db =>
              \E g \in Goroutines :
                  /\ dbMutex.writer = <<g>>
                  /\ dbMutex.readers = {}
                  /\ opens'[g] # opens[g]]_vars

\* C25 happened: two goroutines both read a nil db under the read lock, both
\* went on to the write lock, and both returned the one handle that was
\* opened.
C25_Witness ==
    /\ handles = 1
    /\ \A g \in {1, 2} :
           /\ opens[g].pc = "returned"
           /\ opens[g].calls = 1
           /\ opens[g].localDB = <<>>
           /\ opens[g].err = Nil
           /\ opens[g].ret = db

\* handleSubmit on the current table at time tnow, when nothing is made to
\* fail.
StartedAt(email, tnow) ==
    LET c   == [Email |-> email, ListAddress |-> testListAddress,
                MailAPI |-> mailAPI]
        run == SignupStarterRun(c, signup, tnow, NewUUID(KnownTokens), "none")
    IN  RunRecord("start", email, "none", run,
                  WithTransaction(signup, "none", run))

\* The hours since last_sent_at at which the decision is looked at: each of
\* the hours of two cooldown periods, the end of the first one among them.
Elapsed == 0..(2 * noResendHours)

RateLimited(rec) ==
    rec.result # <<>> /\ rec.result[1].ConfirmationRateLimited

\* C26 (rate-limit boundary): the decision is last_sent_at + 24h > now.  For
\* every row that the attempt cap does not stop, whatever its other fields,
\* a start at any hour before last_sent_at + 24h is rate limited and changes
\* nothing, and a start at last_sent_at + 24h or later is not rate limited.
C26_RateLimitBoundary ==
    \A r \in signup : \A d \in Elapsed :
        /\ SentRecently(r.last_sent_at, r.last_sent_at + d)
               = (r.last_sent_at + noResendHours > r.last_sent_at + d)
        /\ ~ Capped(r) =>
               \A rec \in {StartedAt(r.email, r.last_sent_at + d)} :
                   /\ RateLimited(rec) = (d < noResendHours)
                   /\ RateLimited(rec) =>
                          /\ rec.result = Flags(TRUE, FALSE, FALSE, FALSE)
                          /\ rec.err = Nil
                          /\ SendsNone(rec)
                          /\ rec.table = signup

\* C26 happened: the latest start came exactly one cooldown period after
\* the message before it, and it sent the confirmation again.
C26_Witness ==
    /\ last.op = "start"
    /\ last.result = Flags(FALSE, TRUE, FALSE, FALSE)
    /\ \E r \in signup :
           /\ r.email = TestEmail
           /\ r.num_attempts = 2
           /\ r.last_sent_at = now
           /\ r.created_at + noResendHours = now
           /\ Len(MessagesSent[TestEmail]) = 2

\* C27 (cap before cooldown, and no cap once completed): for a row with
\* num_attempts >= 3 whose last_sent_at is within the cooldown, a start
\* reports MaxNumAttempts and not ConfirmationRateLimited while the row is
\* uncompleted, and ConfirmationRateLimited and not MaxNumAttempts once it
\* is completed; either way it writes nothing and sends nothing.
C27_CapBeforeCooldown ==
    \A r \in signup :
        (r.num_attempts >= maxNumSignupAttempts /\ InCooldown(r, now)) =>
            \A rec \in StartsLookedUp(r.email) :
                /\ rec.err = Nil
                /\ rec.result = IF Uncompleted(r)
                                THEN Flags(FALSE, FALSE, TRUE, FALSE)
                                ELSE Flags(TRUE, FALSE, FALSE, FALSE)
                /\ SendsNone(rec)
                /\ rec.table = signup

\* C27 happened: the row reached the cap and was completed, all within the
\* cooldown of its latest message, and the start that came then was rate
\* limited.
C27_Witness ==
    /\ last.op = "start"
    /\ last.result = Flags(TRUE, FALSE, FALSE, FALSE)
    /\ \E r \in signup :
           /\ r.email = TestEmail
           /\ r.num_attempts = maxNumSignupAttempts
           /\ r.completed_at = now
           /\ r.last_sent_at = now

\* The fields of a row that SignupFinisher has no business with.
Untouched(r) ==
    [email |-> r.email, token |-> r.token, created_at |-> r.created_at,
     last_sent_at |-> r.last_sent_at, num_attempts |-> r.num_attempts]

\* C28 (what a finish writes): a SignupFinisher run, whatever its outcome,
\* changes at most completed_at of the row that has its token and leaves
\* every other field of that row and every other row as they were; after a
\* finish made within the cooldown of the latest message, a start of that
\* address is still ConfirmationRateLimited.
C28_FinishWritesCompletedAt ==
    \A token \in AllTokens :
        \A fault \in FinisherFaults(mailAPI) \ {"begin"} :
            \A rec \in {Confirmed(token, fault)} :
                /\ Cardinality(rec.table) = Cardinality(signup)
                /\ \A r \in signup :
                       IF r.token = token
                       THEN \E n \in rec.table :
                                /\ Untouched(n) = Untouched(r)
                                /\ n.completed_at \in {r.completed_at, now}
                       ELSE r \in rec.table
                /\ \A r \in signup :
                       (/\ r.token = token
                        /\ NoFailure(rec)
                        /\ InCooldown(r, now)) =>
                           \A next \in {StartedOn(rec.table, r.email)} :
                               /\ next.result =
                                      Flags(TRUE, FALSE, FALSE, FALSE)
                               /\ SendsNone(next)
                               /\ next.table = rec.table

\* C28 happened: the address was sent a second message and its signup was
\* finished within the cooldown of that message; the row still has both
\* attempts and the time of the second message.
C28_Witness ==
    /\ last.op = "finish"
    /\ last.result = Finished(TestEmail)
    /\ \E r \in signup :
           /\ r.email = TestEmail
           /\ r.completed_at = now
           /\ r.last_sent_at = now
           /\ r.created_at < now
           /\ r.num_attempts = 2

\* Every row has 1 <= num_attempts <= maxNumSignupAttempts.
AttemptsInRange ==
    \A r \in signup : r.num_attempts \in 1..maxNumSignupAttempts

\* C29 (the count of attempts): whatever the order and the interleaving of
\* the runs, every row has 1 <= num_attempts <= maxNumSignupAttempts, and no
\* step takes the num_attempts of a row down.
C29_AttemptsBounded ==
    /\ []AttemptsInRange
    /\ [][\A r \in signup :
              \E n \in signup' :
                  /\ n.email = r.email
                  /\ n.num_attempts >= r.num_attempts]_vars

\* handleSubmit on table tbl at time tnow, when nothing is made to fail.
StartedOnAt(tbl, email, tnow) ==
    LET c   == [Email |-> email, ListAddress |-> testListAddress,
                MailAPI |-> mailAPI]
        run == SignupStarterRun(c, tbl, tnow,
                   NewUUID(KnownTokens \cup {r.token : r \in tbl}), "none")
    IN  RunRecord("start", email, "none", run,
                  WithTransaction(tbl, "none", run))

SawSameRow(p, q) ==
    /\ runs[p].op = "start" /\ runs[q].op = "start"
    /\ runs[p].arg = runs[q].arg
    /\ runs[p].pc = "done" /\ runs[q].pc = "done"
    /\ runs[p].found # <<>>
    /\ runs[p].found = runs[q].found
    /\ Uncompleted(runs[p].found[1])
    /\ ~ Capped(runs[p].found[1])

\* The number of the starts p and q that handed a message to SendMessage.
SentBy(p, q) == Cardinality({s \in {p, q} : runs[s].calls # <<>>})

\* C31 (cooldown and accounting under concurrency): of two starts of one
\* address that run in overlapping transactions on the same uncompleted row,
\* at most one sends a confirmation message, and num_attempts of the row
\* goes up by exactly the number of messages that they sent.
C31_ConcurrentResends ==
    \A p \in Procs : \A q \in Procs \ {p} :
        SawSameRow(p, q) =>
            /\ SentBy(p, q) <= 1
            /\ \A r \in RowsByEmail(signup, runs[p].arg) :
                   r.num_attempts =
                       runs[p].found[1].num_attempts + SentBy(p, q)

\* C32 (an emailed token is a stored token): once the transaction of a start
\* has ended, every confirmation message that the mailing service took for
\* an address carries the token of the committed row of that address, and a
\* finish with that token does not report TokenNotFound; so also when the
\* commit failed after the message was sent.
C32_EmailedTokenStored ==
    \A a \in Addresses :
        \A i \in 1..Len(MessagesSent[a]) :
            /\ \E r \in signup :
                   r.email = a /\ r.token = MessagesSent[a][i].token
            /\ \A rec \in {Confirmed(MessagesSent[a][i].token, "none")} :
                   /\ rec.result # <<>>
                   /\ ~ rec.result[1].TokenNotFound

\* C33 (a member of the list has a completed row): once the transaction of
\* a finish has ended, every address that the run added to the list has a
\* committed row with completed_at set; so also when the commit failed after
\* AddMember succeeded.
C33_MemberCompleted ==
    \A a \in Addresses :
        MembersAdded[a] # <<>> =>
            \E r \in signup : r.email = a /\ r.completed_at # NULL

\* The steps of MailgunClient.SendMessage that can fail.
MailgunSendFaults == {"addRecipient", "send"}

\* C34 (the error of MailgunClient.SendMessage): SendMessage returns nil when
\* the provider accepts the message and an error only when a step of it
\* fails; so a start whose message the mailing service accepted, and in
\* which nothing else fails, returns NewSignup or ConfirmationResent with a
\* nil error, and its transaction commits.
C34_MailgunSendMessage ==
    /\ \A a \in Addresses : \A token \in Tokens :
           \A params \in {ConfirmationParams(
                              [Email |-> a, ListAddress |-> testListAddress],
                              token)} :
               /\ MailgunSendMessage(params, "none").err = Nil
               /\ MailgunSendMessage(params, "none").accepted
               /\ \A fault \in MailgunSendFaults :
                      MailgunSendMessage(params, fault).err # Nil
    /\ \A email \in AllEmails :
           \A rec \in {Submitted(email, "none")} :
               rec.accepted # <<>> =>
                   /\ rec.err = Nil
                   /\ rec.result \in {Flags(FALSE, FALSE, FALSE, TRUE),
                                      Flags(FALSE, TRUE, FALSE, FALSE)}
                   /\ rec.txEnd = "commit"

ClaimsAllowedOrigin(r) ==
    \/ r.Origin \in allowedOrigins
    \/ /\ r.Origin = <<>>
       /\ \E a \in allowedOrigins :
              Len(r.Referer) >= Len(a) /\ SubSeq(r.Referer, 1, Len(a)) = a

\* The reason that the claim gives for a request that is turned away.
ClaimedReason(r) ==
    IF r.Origin = <<>> /\ r.Referer # <<>> /\ Head(r.Referer) = "||https:"
    THEN ErrInvalidReferer
    ELSE IF r.Origin = <<>> /\ r.Referer = <<>>
    THEN ErrEmptyOrigin
    ELSE ErrDisallowedOrigin

\* C36 (CSRF protection): a request with a method that is not safe reaches
\* the wrapped handler only if its Origin header, or without one the
\* scheme://host of its Referer, is an allowed origin; otherwise it is
\* answered 403 with the failure reason and the wrapped handler is not
\* called; a request with a safe method always reaches the wrapped handler.
C36_CSRF ==
    /\ served \in {NotServed} \cup {ServeHTTP(r) : r \in Requests}
    /\ \A r \in Requests :
           \A res \in {ServeHTTP(r)} :
               IF r.Method \in {"GET", "HEAD", "OPTIONS", "TRACE"}
               THEN res.called /\ res.status = StatusOK
               ELSE /\ res.called = ClaimsAllowedOrigin(r)
                    /\ res.called => res.status = StatusOK
                    /\ ~ res.called =>
                           /\ res.status = StatusForbidden
                           /\ res.reason = ClaimedReason(r)

\* C36 happened: the latest request was a POST without an Origin header
\* whose Referer is a page of an allowed origin, and it reached the wrapped
\* handler.
C36_Witness ==
    /\ served.Method = "POST"
    /\ served.Origin = <<>>
    /\ served.Referer = <<"https", "://", "example.com", "/path/on/example">>
    /\ served.called
    /\ served.status = StatusOK

====
